---- MODULE Spec2Model ----
(***************************************************************************)
(* Model of the daily signal-to-trade pipeline (app/main.py), its broker   *)
(* executor (app/broker/executor.py) and its persistence layer (app/db).   *)
(*                                                                         *)
(* Every pipeline run is a separate process invocation of _async_main;     *)
(* runs share only the relational store (raw_news, sentiment_signal,       *)
(* trade_execution).  A run's steps are its awaits on the store, on the    *)
(* analysis capability and on the broker; steps of different runs          *)
(* interleave freely.  Time is the UTC day number.  Sentiment is in tenths  *)
(* (0.3 is 3), quantity in millionths of a share.                          *)
(***************************************************************************)
EXTENDS Integers, Sequences, FiniteSets, TLC

\* ------------------------------------------------------------------ bounds
MaxDay == 1
MaxItems == 2
MaxCalls == 3
MaxTitles == 4
MaxBatch == 2
MaxRows == 3
MaxEvalDay == 3
MaxExecs == 2
MaxEntryDay == 13
MaxFeed == 2
MaxBacklog == 51

\* ------------------------------------------------------- program constants
MAX_DAILY_TRADES == 1
MIN_SENTIMENT_TO_TRADE == 3
INVEST_AMOUNT_USD == 40
QTY_EPS_INV == 1000000
STOP_AFTER_ATTEMPT == 4
EVAL_AGE_DAYS == 2
EVAL_LIMIT == 50
DAYS_BEFORE == 7
DAYS_AFTER == 20
T3_SESSIONS == 3
T7_SESSIONS == 7
SERIES_BEFORE == 5
SERIES_AFTER_DAYS == 2

\* Two process invocations, which may overlap in time.
Runs == {"r1", "r2"}
Days == 0..MaxDay

\* Python's None, and an optional value x.
None == <<>>
Some(x) == <<x>>

\* Python truthiness of an optional string, and `a or b` over them.
Truthy(a) == a # None /\ a # Some("")
PyOr(a, b) == IF Truthy(a) THEN a ELSE b

\* ------------------------------------------------------------ input domains
\* Collected items (RawNewsIn): url may be empty, raw_title never is.
ItemSet == {[url |-> "u1", raw_title |-> "t1"],
            [url |-> "u2", raw_title |-> "t2"],
            [url |-> "", raw_title |-> "t3"]}

RECURSIVE SeqsUpTo(_, _)
SeqsUpTo(S, n) ==
    IF n = 0 THEN {<<>>}
    ELSE LET shorter == SeqsUpTo(S, n - 1)
         IN shorter \cup {Append(s, x) : s \in {t \in shorter : Len(t) = n - 1}, x \in S}

Batches == SeqsUpTo(ItemSet, MaxItems)

\* Messages of exceptions raised by external libraries: str(e) may be empty
\* (asyncio.TimeoutError() carries no message).  The messages of the
\* executor's own exceptions are written in English here.
ExtMsgs == {"", "broker error"}

\* Normalized analyzer outputs (AnalyzedItem), sentiment in tenths: one exactly
\* on the trading threshold, one a tenth below it, one above it with a risk tag.
AnalyzedItems == {[ticker |-> Some("NVDA"), sentiment |-> MIN_SENTIMENT_TO_TRADE,
                   risk_tags |-> {}],
                  [ticker |-> Some("AAPL"), sentiment |-> 2, risk_tags |-> {}],
                  [ticker |-> Some("TSLA"), sentiment |-> 10, risk_tags |-> {"fraud"}]}

\* The float nan as a price or a quantity: Ticker.marketPrice() is nan when
\* the ticker carries no last, bid or ask.  It is written as the number -1,
\* which no comparison below reads as a number: every comparison with nan is
\* false.
NaNPrice == -1

\* marketPrice() answers of the broker: no price (0), a price, a price so
\* high that the quantity is degenerate, and nan.
Prices == {0, 20, 40000000, NaNPrice}

Phases == {"preopen", "monitor", "midday"}

\* ------------------------------------------- analysis response normalizers
\* A value of the capability's JSON response is loosely typed: null (or an
\* absent field), a number, a string (a sequence of characters), a list, or
\* another object.  Numbers are in tenths; json.loads also yields the floats
\* NaN and +-Infinity.
Null == [t |-> "null"]
Str(chars) == [t |-> "str", v |-> chars]
Num(f) == [t |-> "num", v |-> f]
List(xs) == [t |-> "list", v |-> xs]

\* A Python float: a finite value in tenths, an infinity (Huge stands for
\* it), or NaN.
Huge == 1000000
Fin(v) == [nan |-> FALSE, v |-> v]
NaN == [nan |-> TRUE, v |-> 0]
PosInf == Fin(Huge)
NegInf == Fin(0 - Huge)

\* a < b on floats: every comparison with NaN is false.
PyLt(a, b) == ~a.nan /\ ~b.nan /\ a.v < b.v

\* The builtins min(a, b) and max(a, b): the first argument is kept unless
\* the second is strictly smaller (greater).
PyMin(a, b) == IF PyLt(b, a) THEN b ELSE a
PyMax(a, b) == IF PyLt(a, b) THEN b ELSE a

\* _clamp
Clamp(x, lo, hi) == PyMax(lo, PyMin(hi, x))

LowerAlpha == <<"a", "b", "c", "d", "e", "f", "g", "h", "i", "j", "k", "l", "m",
                "n", "o", "p", "q", "r", "s", "t", "u", "v", "w", "x", "y", "z">>
UpperAlpha == <<"A", "B", "C", "D", "E", "F", "G", "H", "I", "J", "K", "L", "M",
                "N", "O", "P", "Q", "R", "S", "T", "U", "V", "W", "X", "Y", "Z">>
IsUpperLetter(c) == \E i \in 1..26 : UpperAlpha[i] = c

\* str.upper() and str.strip() on a sequence of characters.
UpperChar(c) ==
    IF \E i \in 1..26 : LowerAlpha[i] = c
    THEN UpperAlpha[CHOOSE i \in 1..26 : LowerAlpha[i] = c]
    ELSE c
Upper(chars) == [k \in 1..Len(chars) |-> UpperChar(chars[k])]
IsSpace(c) == c \in {" ", "\t", "\n"}
RECURSIVE LStrip(_)
LStrip(chars) ==
    IF chars # <<>> /\ IsSpace(Head(chars)) THEN LStrip(Tail(chars)) ELSE chars
RECURSIVE RStrip(_)
RStrip(chars) ==
    IF chars # <<>> /\ IsSpace(chars[Len(chars)])
    THEN RStrip(SubSeq(chars, 1, Len(chars) - 1)) ELSE chars
Strip(chars) == RStrip(LStrip(chars))

\* _TICKER_RE.match(s): ^[A-Z]{1,6}([.-][A-Z]{1,4})?$
AllUpper(chars) == \A k \in 1..Len(chars) : IsUpperLetter(chars[k])
TickerReMatch(s) ==
    \/ Len(s) \in 1..6 /\ AllUpper(s)
    \/ \E p \in 2..(Len(s) - 1) :
          /\ s[p] \in {".", "-"}
          /\ p - 1 \in 1..6 /\ AllUpper(SubSeq(s, 1, p - 1))
          /\ Len(s) - p \in 1..4 /\ AllUpper(SubSeq(s, p + 1, Len(s)))

\* _normalize_ticker: the string is stripped and upper-cased before the
\* pattern is tried, and the upper-cased string is what is returned.
NormalizeTicker(v) ==
    IF v.t = "null" THEN None
    ELSE IF v.t # "str" THEN None
    ELSE LET s == Upper(Strip(v.v))
         IN IF s = <<>> THEN None
            ELSE IF ~TickerReMatch(s) THEN None
            ELSE Some(s)

\* float(v): a number is itself, a string is parsed after stripping (the
\* strings of RawSentiments), anything else raises; None stands for raising.
ToFloat(v) ==
    IF v.t = "num" THEN Some(v.v)
    ELSE IF v.t = "str"
    THEN LET s == Strip(v.v)
         IN IF s = <<"0", ".", "5">> THEN Some(Fin(5))
            ELSE IF s = <<"2">> THEN Some(Fin(20))
            ELSE IF Upper(s) = <<"N", "A", "N">> THEN Some(NaN)
            ELSE None
    ELSE None

\* _normalize_sentiment
NormalizeSentiment(v) ==
    LET f == ToFloat(v)
    IN IF f = None THEN Fin(0) ELSE Clamp(f[1], Fin(0 - 10), Fin(10))

\* _normalize_risk_tags: the non-blank strings of a list, stripped.
RECURSIVE KeepTags(_)
KeepTags(xs) ==
    IF xs = <<>> THEN <<>>
    ELSE LET x == Head(xs)
         IN IF x.t = "str" /\ Strip(x.v) # <<>>
            THEN <<Strip(x.v)>> \o KeepTags(Tail(xs))
            ELSE KeepTags(Tail(xs))
NormalizeRiskTags(v) == IF v.t # "list" THEN <<>> ELSE KeepTags(v.v)

\* An element of the response array: an object with the three fields read
\* here (an absent field reads as null), or something that is not an object.
Obj(ticker, sentiment, risk_tags) ==
    [t |-> "obj", ticker |-> ticker, sentiment |-> sentiment, risk_tags |-> risk_tags]
NotAnObj == Num(Fin(7))

\* ai_analyzer.py:118-128: one element of the response becomes one item; an
\* element that is not an object is read as the empty object.  (The summary
\* field plays no part in any decision and is left out.)
NormalizeElement(e) ==
    LET obj == IF e.t = "obj" THEN e ELSE Obj(Null, Null, Null)
    IN [ticker |-> NormalizeTicker(obj.ticker),
        sentiment |-> NormalizeSentiment(obj.sentiment),
        risk_tags |-> NormalizeRiskTags(obj.risk_tags)]

\* Raw field values the capability may send.
RawTickers ==
    {Null, Num(Fin(1230)),
     Str(<<"a", "a", "p", "l">>), Str(<<"1", "2", "3">>), Str(<<>>),
     Str(<<"A", "A", "P", "L">>), Str(<<"B", "R", "K", ".", "B">>),
     Str(<<" ", "b", "r", "k", "-", "b", " ">>),
     Str(<<"A", "B", "C", "D", "E", "F", "G">>), Str(<<"B", "R", "K", ".">>),
     Str(<<"A", "1">>), Str(<<" ">>)}
RawSentiments ==
    {Null, List(<<>>), Num(NaN), Num(PosInf), Num(NegInf),
     Str(<<"0", ".", "5">>), Str(<<"2">>), Str(<<"a", "b", "c">>), Str(<<"n", "a", "n">>)}
    \cup {Num(Fin(f)) : f \in {0 - 20, 0 - 11, 0 - 10, 0 - 5, 0, 3, 10, 11, 15}}
RawRiskTags ==
    {Null, List(<<>>), List(<<Str(<<"f", "r", "a", "u", "d">>)>>),
     List(<<Str(<<" ">>), Num(Fin(7)), Str(<<"s", "e", "c", " ">>)>>)}
RawElements ==
    {NotAnObj} \cup {Obj(t, f, g) : t \in RawTickers, f \in RawSentiments, g \in RawRiskTags}

VARIABLES
    clock,       \* current UTC day
    dry_run,     \* DRY_RUN of the environment
    trading_mode,\* TRADING_MODE of the environment
    api_key,     \* DEEPSEEK_API_KEY is set
    raw_news,    \* table raw_news, in insertion order
    signals,     \* table sentiment_signal, in insertion order
    executions,  \* table trade_execution, in insertion order
    pc,          \* each run's position in _async_main
    loc,         \* each run's local variables in _async_main
    ib,          \* the executor's session handle is set (IBExecutor._ib)
    approved,    \* history: the run passed the risk gate
    handed,      \* history: urls whose titles the run handed to the analyzer
    tally,       \* history: signal rows the run stored, broker calls it made
    exit_at,     \* history: the stage at which the run returned
    status,      \* exit status of the run's process
    an,          \* analyzer harness: one call of analyze_titles
    sel,         \* selection harness: one call of select_top1_today_no_risk
    outcomes,    \* table trade_outcome, in insertion order
    ev,          \* each evaluator run's position and locals in evaluate.py
    cmp,         \* outcome-price harness: one call of compute_outcome_prices
    col,         \* collector harness: the feeds and what Step 2 makes of them
    norm_raw,    \* normalizer harness: the last element normalized
    norm_item,   \* normalizer harness: the item made of it
    call_prev,   \* ingestion harness: the batch of the call before the last
    call_items,  \* ingestion harness: the last call's batch
    call_ret,    \* ingestion harness: the last call's return value
    calls        \* ingestion harness: calls made

vars == <<clock, dry_run, trading_mode, api_key, raw_news, signals, executions,
          pc, loc, ib, approved, handed, tally, exit_at, status,
          call_prev, call_items, call_ret, calls, norm_raw, norm_item, an, sel, outcomes, ev, cmp, col>>

envVars == <<dry_run, trading_mode, api_key>>
ingestVars == <<call_prev, call_items, call_ret, calls>>
normVars == <<norm_raw, norm_item>>
evalVars == <<outcomes, ev>>
harnessVars == <<ingestVars, normVars, an, sel, evalVars, cmp, col>>

\* ------------------------------------------------------------ persistence
\* The rows of one INSERT ... ON CONFLICT (url) DO NOTHING RETURNING, applied
\* value by value: a value whose url is already in the table (stored before,
\* or inserted earlier by this statement) is skipped.
RECURSIVE OnConflictDoNothing(_, _, _)
OnConflictDoNothing(store, values, by) ==
    IF values = <<>> THEN [store |-> store, rows |-> <<>>]
    ELSE LET v == Head(values)
             dup == \E k \in 1..Len(store) : store[k].url = v.url
             row == [url |-> v.url, raw_title |-> v.raw_title, by |-> by]
             rest == OnConflictDoNothing(IF dup THEN store ELSE Append(store, row),
                                         Tail(values), by)
         IN [store |-> rest.store,
             rows |-> IF dup THEN rest.rows ELSE <<row>> \o rest.rows]

\* A plain INSERT ... RETURNING that takes every value.
InsertRawNewsTakeAll(store, items, by) ==
    LET rows == [k \in 1..Len(items) |->
                    [url |-> items[k].url, raw_title |-> items[k].raw_title, by |-> by]]
    IN [store |-> store \o rows, rows |-> rows]

\* An insert that skips conflicts but reports every value with a url.
InsertRawNewsReportAll(store, items, by) ==
    LET values == SelectSeq(items, LAMBDA i : i.url # "")
    IN [store |-> OnConflictDoNothing(store, values, by).store,
        rows |-> [k \in 1..Len(values) |->
                    [url |-> values[k].url, raw_title |-> values[k].raw_title, by |-> by]]]

\* insert_raw_news: the table after the statement and the rows it returns.
InsertRawNews(store, items, by) ==
    LET values == SelectSeq(items, LAMBDA i : i.url # "")
    IN IF items = <<>> \/ values = <<>>
       THEN [store |-> store, rows |-> <<>>]
       ELSE OnConflictDoNothing(store, values, by)

\* insert_signals: one row per analyzed item, all stamped created_at.
InsertSignals(store, items, created_at) ==
    store \o [k \in 1..Len(items) |->
                [ticker |-> items[k].ticker, score |-> items[k].sentiment,
                 risk_tags |-> items[k].risk_tags, created_at |-> created_at]]

\* A selection that leaves out the risk-tag filter.
Top1TodayAnyRisk(store, day_start_utc) ==
    LET ok == {k \in 1..Len(store) :
                  /\ store[k].created_at >= day_start_utc
                  /\ store[k].ticker # None}
    IN {k \in ok : \A j \in ok : store[j].score <= store[k].score}

\* select_top1_today_no_risk: the rows ORDER BY score DESC LIMIT 1 may return,
\* among the rows created since day_start_utc with a ticker and no risk tag.
\* The statement gives no second sort key, so any row of maximal score may
\* come first.
Top1TodayNoRisk(store, day_start_utc) ==
    LET ok == {k \in 1..Len(store) :
                  /\ store[k].created_at >= day_start_utc
                  /\ store[k].ticker # None
                  /\ store[k].risk_tags = {}}
    IN {k \in ok : \A j \in ok : store[j].score <= store[k].score}

\* count_executions_since: rows with created_at >= start_utc.
CountExecutionsSince(store, start_utc) ==
    Cardinality({k \in 1..Len(store) : store[k].created_at >= start_utc})

\* An insert that writes over the latest row when there is one.
InsertExecutionUpsert(store, row) ==
    IF store = <<>> THEN <<row>> ELSE [store EXCEPT ![Len(store)] = row]

\* insert_execution: append one TradeExecution row.
InsertExecution(store, row) == Append(store, row)

\* The analyzer harness before analyze_titles is called: its arguments, the
\* loop offset i, the attempts made on the current batch, what the last
\* request brought back, the list out, and the history of the batches dealt
\* with.
NoCall == [pc |-> "idle", titles |-> <<>>, batch_size |-> 1, i |-> 0, attempts |-> 0,
           last |-> [k |-> "none", len |-> 0], out |-> <<>>, log |-> <<>>]

\* ------------------------------------------------------------------- state
\* The locals of _async_main before any is assigned; a process that has
\* exited has none.
NoLocals == [phase |-> "preopen", raw_items |-> <<>>, inserted_rows |-> <<>>,
             analyzed |-> <<>>, top1 |-> None, day_start |-> 0, now_utc |-> 0,
             result |-> None, error |-> None, snapshot_err |-> None,
             fault |-> "none"]

\* Evaluator processes, and one of them before it runs.
Evals == {"e1", "e2"}
NoEval == [pc |-> "idle", batch |-> <<>>, log |-> <<>>, status |-> None,
           how |-> "running"]

\* The outcome-price harness before compute_outcome_prices is called: the
\* entry date, the calendar's holidays and last day, the defect of the price
\* data, and what the call gave.
NoCompute == [entry |-> 0, holidays |-> {}, cal_end |-> 0, called |-> FALSE,
              defect |-> [kind |-> "none", symbol |-> "", day |-> 0],
              ret |-> None, row |-> None]

\* The collector harness before anything is fetched: the entries of the RSS
\* feeds, the posts of the subreddits, and the raw_items of main.py:100.
NoCollect == [entries |-> <<>>, posts |-> <<>>, called |-> FALSE, raw_items |-> <<>>]

\* The selection harness before select_top1_today_no_risk is called.
NoSelect == [store |-> <<>>, day_start_utc |-> 0, ret |-> <<>>, called |-> FALSE]

NoTally == [signals |-> 0, connects |-> 0, quotes |-> 0, orders |-> 0]

storeVars == <<raw_news, signals, executions>>
histVars == <<approved, handed, tally>>

Init ==
    /\ clock = 0
    /\ dry_run \in BOOLEAN
    /\ trading_mode \in {"paper", "live"}
    /\ api_key \in BOOLEAN
    /\ raw_news = <<>>
    /\ signals = <<>>
    /\ executions = <<>>
    /\ pc = [r \in Runs |-> "idle"]
    /\ loc = [r \in Runs |-> NoLocals]
    /\ ib = [r \in Runs |-> FALSE]
    /\ approved = [r \in Runs |-> FALSE]
    /\ handed = [r \in Runs |-> {}]
    /\ tally = [r \in Runs |-> NoTally]
    /\ exit_at = [r \in Runs |-> "running"]
    /\ status = [r \in Runs |-> None]
    /\ call_prev = <<>>
    /\ call_items = <<>>
    /\ call_ret = <<>>
    /\ calls = 0
    /\ norm_raw = Null
    /\ norm_item = None
    /\ an = NoCall
    /\ sel = NoSelect
    /\ outcomes = <<>>
    /\ ev = [e \in Evals |-> NoEval]
    /\ cmp = NoCompute
    /\ col = NoCollect

\* The run goes on at label with locals l.
Step(r, label, l) ==
    /\ pc' = [pc EXCEPT ![r] = label]
    /\ loc' = [loc EXCEPT ![r] = l]
    /\ UNCHANGED <<status, exit_at>>

\* The process ends at stage with exit status code.
Exit(r, stage, code) ==
    /\ pc' = [pc EXCEPT ![r] = "done"]
    /\ loc' = [loc EXCEPT ![r] = NoLocals]
    /\ exit_at' = [exit_at EXCEPT ![r] = stage]
    /\ status' = [status EXCEPT ![r] = Some(code)]

\* A return that reports the stage as a failure of the process.
ReturnNonZero(r, stage) == Exit(r, stage, 1)

\* return 0 from _async_main.
Return0(r, stage) == Exit(r, stage, 0)

IsPaper(mode) == mode = "paper"

\* The UTC day advances.
Tick ==
    /\ clock < MaxDay
    /\ clock' = clock + 1
    /\ UNCHANGED <<envVars, harnessVars, storeVars, histVars, pc, loc, ib, exit_at, status>>

\* A process starts: reads RUN_PHASE and initialises the database.  A failure
\* of init_db is not caught in _async_main and reaches the entry point,
\* which exits 1.
Start(r) ==
    /\ pc[r] = "idle"
    /\ \E ph \in Phases, db_ok \in BOOLEAN :
          IF ~db_ok
          THEN Exit(r, "init_db_error", 1)
          ELSE Step(r, IF ph \in {"preopen", "postclose"} THEN "snapshot" ELSE "collect",
                    [loc[r] EXCEPT !.phase = ph])
    /\ UNCHANGED <<clock, envVars, harnessVars, storeVars, histVars, ib>>

\* Step 1.5: the best-effort account snapshot before the pipeline, through an
\* executor of its own (dry_run=True) and into the snapshot tables, which
\* nothing else reads.  It is recorded, or something in it raises.
PreSnapshot(r) ==
    /\ pc[r] = "snapshot"
    /\ \/ Step(r, "collect", loc[r])
       \/ Step(r, "snapshot_failed", loc[r])
    /\ UNCHANGED <<clock, envVars, harnessVars, storeVars, histVars, ib>>

\* main.py:86-87: the handler of Step 1.5 logs the exception and the run
\* goes on to collection.
PreSnapshotFailed(r) ==
    /\ pc[r] = "snapshot_failed"
    /\ Step(r, "collect", loc[r])
    /\ UNCHANGED <<clock, envVars, harnessVars, storeVars, histVars, ib>>

\* A phase test that sends every run down the trading pipeline.
MonitorNever(phase) == FALSE

\* main.py:109: run_phase.lower() == "monitor".
MonitorOnly(phase) == phase = "monitor"

\* Step 2: the collectors' items; a monitor run ends here, and so does a run
\* whose collection stage raises.
Collect(r) ==
    /\ pc[r] = "collect"
    /\ \/ \E batch \in Batches :
             IF MonitorOnly(loc[r].phase)
             THEN Return0(r, "monitor")
             ELSE Step(r, "persist", [loc[r] EXCEPT !.raw_items = batch,
                                                   !.phase = "preopen"])
       \/ Return0(r, "collect_error")
    /\ UNCHANGED <<clock, envVars, harnessVars, storeVars, histVars, ib>>

\* Step 3: insert_raw_news and commit in one transaction; a storage error
\* ends the run, with the rows stored or not according to whether the commit
\* had gone through.
\* A handler that logs the storage error and goes on with the collected items.
PersistFailedGoOn(r) ==
    /\ pc' = [pc EXCEPT ![r] = "analyze"]
    /\ loc' = [loc EXCEPT ![r].inserted_rows =
                   [k \in 1..Len(loc[r].raw_items) |->
                       [url |-> loc[r].raw_items[k].url,
                        raw_title |-> loc[r].raw_items[k].raw_title, by |-> r]]]
    /\ exit_at' = [exit_at EXCEPT ![r] = "persist_error"]
    /\ UNCHANGED status

\* main.py:176-179: the handler of a storage error in Step 3 returns 0.
PersistFailed(r) == Return0(r, "persist_error")

PersistRawNews(r) ==
    /\ pc[r] = "persist"
    /\ LET res == InsertRawNews(raw_news, loc[r].raw_items, r)
       IN \/ /\ raw_news' = res.store
             /\ Step(r, "analyze", [loc[r] EXCEPT !.inserted_rows = res.rows])
          \/ \* the statement or the commit raised
             PersistFailed(r) /\ UNCHANGED raw_news
          \/ \* closing the session or disposing the engine raised after the commit
             PersistFailed(r) /\ raw_news' = res.store
    /\ UNCHANGED <<clock, envVars, harnessVars, signals, executions, histVars, ib>>

\* analyze_titles on one batch (batch_size 15 holds every title of a run): the
\* batch fails, and contributes nothing, or yields one item per title.
AnalyzerOutputs(titles) ==
    IF titles = <<>> THEN {<<>>}
    ELSE {<<>>} \cup [1..Len(titles) -> AnalyzedItems]

\* Titles taken from every collected item instead of the inserted rows.
TitleRowsFromCollected(l) == SelectSeq(l.raw_items, LAMBDA x : x.raw_title # "")

\* main.py:195: the rows whose titles go to the analyzer.
TitleRows(l) == SelectSeq(l.inserted_rows, LAMBDA x : x.raw_title # "")

\* Step 4: the API key and new-rows checks, then the analyzer call; now_utc
\* and day_start of main.py:199 are taken when it returns.
Analyze(r) ==
    /\ pc[r] = "analyze"
    /\ IF ~api_key
       THEN Return0(r, "no_api_key") /\ UNCHANGED handed
       ELSE IF loc[r].inserted_rows = <<>>
       THEN Return0(r, "no_new_rows") /\ UNCHANGED handed
       ELSE \/ LET rows == TitleRows(loc[r])
                   titles == [k \in 1..Len(rows) |-> rows[k].raw_title]
               IN \E out \in AnalyzerOutputs(titles) :
                     /\ handed' = [handed EXCEPT ![r] = {rows[k].url : k \in 1..Len(rows)}]
                     /\ Step(r, "signals",
                             [loc[r] EXCEPT !.analyzed = out, !.day_start = clock,
                                          !.raw_items = <<>>,
                                          !.inserted_rows = <<>>])
            \/ Return0(r, "analysis_error") /\ UNCHANGED handed
    /\ UNCHANGED <<clock, envVars, harnessVars, storeVars, approved, tally, ib>>

\* Step 5a: insert_signals and commit.
StoreSignals(r) ==
    /\ pc[r] = "signals"
    /\ \/ /\ signals' = InsertSignals(signals, loc[r].analyzed, loc[r].day_start)
          /\ tally' = [tally EXCEPT ![r].signals = @ + Len(loc[r].analyzed)]
          /\ Step(r, "select", [loc[r] EXCEPT !.analyzed = <<>>])
       \/ Return0(r, "analysis_error") /\ UNCHANGED <<signals, tally>>
    /\ UNCHANGED <<clock, envVars, harnessVars, raw_news, executions, approved, handed, ib>>

\* Step 5b: select_top1_today_no_risk; no candidate ends the run.
SelectTop1(r) ==
    /\ pc[r] = "select"
    /\ \/ LET cands == Top1TodayNoRisk(signals, loc[r].day_start)
          IN IF cands = {}
             THEN Return0(r, "no_top1")
             ELSE \E k \in cands : Step(r, "gate", [loc[r] EXCEPT !.top1 = Some(signals[k])])
       \/ Return0(r, "analysis_error")
    /\ UNCHANGED <<clock, envVars, harnessVars, storeVars, histVars, ib>>

\* A threshold check that turns down a score equal to the threshold.
BelowOrAtThreshold(score) == score <= MIN_SENTIMENT_TO_TRADE

\* main.py:247: the candidate is below the sentiment threshold.
BelowThreshold(score) == score < MIN_SENTIMENT_TO_TRADE

\* A cap check that lets a count equal to the cap through.
CapReachedStrict(trades_today) == trades_today > MAX_DAILY_TRADES

\* main.py:262: the daily cap is reached.
CapReached(trades_today) == trades_today >= MAX_DAILY_TRADES

\* Step 6: the threshold check, then now_utc and day_start of main.py:251 and
\* the count of today's executions, then the cap check.  A storage error in
\* the count ends the run.
RiskGate(r) ==
    /\ pc[r] = "gate"
    /\ LET score == loc[r].top1[1].score
       IN IF BelowThreshold(score)
          THEN Return0(r, "below_threshold") /\ UNCHANGED approved
          ELSE \/ LET trades_today == CountExecutionsSince(executions, clock)
                  IN IF CapReached(trades_today)
                     THEN Return0(r, "cap_reached") /\ UNCHANGED approved
                     ELSE /\ approved' = [approved EXCEPT ![r] = TRUE]
                          /\ Step(r, "connect", [loc[r] EXCEPT !.now_utc = clock])
               \/ Return0(r, "execution_error") /\ UNCHANGED approved
    /\ UNCHANGED <<clock, envVars, harnessVars, storeVars, handed, tally, ib>>

\* ---------------------------------------------------------------- executor
\* IBExecutor.__aenter__ / connect: a trading mode other than paper is refused
\* before connectAsync is called; connectAsync itself may raise.  An exception
\* here leaves the scoped block without __aexit__: main.py:299 records it and
\* the finally clause writes the audit row.
Connect(r) ==
    /\ pc[r] = "connect"
    /\ IF ~IsPaper(trading_mode)
       THEN /\ Step(r, "audit", [loc[r] EXCEPT !.error = Some("TRADING_MODE must be paper"),
                                               !.fault = "connect"])
            /\ UNCHANGED <<ib, tally>>
       ELSE /\ tally' = [tally EXCEPT ![r].connects = @ + 1]
            /\ \/ /\ ib' = [ib EXCEPT ![r] = TRUE]
                  /\ Step(r, "session", loc[r])
               \/ \E msg \in ExtMsgs :
                     /\ Step(r, "audit", [loc[r] EXCEPT !.error = Some(msg),
                                                        !.fault = "connect"])
                     /\ UNCHANGED ib
    /\ UNCHANGED <<clock, envVars, harnessVars, storeVars, approved, handed>>

\* main.py:277-295: the best-effort snapshot inside the session: it succeeds,
\* or its failure is caught and its message kept for snapshot_err.
SnapshotOutcomes == {None, Some("snapshot error")}

\* qty = amount_usd / price in millionths of a share, and the degenerate
\* quantity check qty <= 0 or qty <= 1e-6.
Qty(amount_usd, price) ==
    IF price = NaNPrice THEN NaNPrice ELSE (amount_usd * QTY_EPS_INV) \div price
QtyDegenerate(amount_usd, price) ==
    price # NaNPrice /\ amount_usd * QTY_EPS_INV <= price

\* executor.py:88: price <= 0, false for nan.
PriceNotPositive(price) == price # NaNPrice /\ price <= 0

BuyResult(ticker, price, qty, dry, order_status) ==
    [ticker |-> ticker, amount_usd |-> INVEST_AMOUNT_USD, price |-> Some(price),
     qty |-> Some(qty), dry_run |-> dry, order_status |-> order_status]

\* buy_fractional_by_amount raised msg at stage where, after so many quote
\* requests and placeOrder calls.
Raised(msg, where, quotes, orders) ==
    [result |-> None, raised |-> Some(msg), fault |-> where,
     quotes |-> quotes, orders |-> orders]

\* buy_fractional_by_amount returned res.
Returned(res, quotes, orders) ==
    [result |-> Some(res), raised |-> None, fault |-> "none",
     quotes |-> quotes, orders |-> orders]

\* A simulated fill that reports an order status.
DryFillWithStatus(ticker, price) ==
    {Returned(BuyResult(ticker, price, Qty(INVEST_AMOUNT_USD, price), TRUE,
                        Some("Submitted")), 1, 0)}

\* executor.py:95-103: the simulated fill; no order is sent.
DryFill(ticker, price) ==
    {Returned(BuyResult(ticker, price, Qty(INVEST_AMOUNT_USD, price), TRUE, None), 1, 0)}

\* An executor that sends the order a second time when placeOrder raises.
LiveOrderRetried(ticker, price) ==
    {Raised(msg, "order", 1, 2) : msg \in ExtMsgs}
    \cup {Returned(BuyResult(ticker, price, Qty(INVEST_AMOUNT_USD, price), FALSE, st),
                   1, 2) : st \in {None, Some("Submitted")}}

\* executor.py:105-119: placeOrder raises; or the order is placed and the
\* grace period or the read-back raises; or the status is read back (it may
\* be unset).
LiveOrder(ticker, price) ==
    {Raised(msg, "order", 1, 1) : msg \in ExtMsgs}
    \cup {Raised(msg, "after_order", 1, 1) : msg \in ExtMsgs}
    \cup {Returned(BuyResult(ticker, price, Qty(INVEST_AMOUNT_USD, price), FALSE, st),
                   1, 1) : st \in {None, Some("Submitted")}}

\* An executor that sends the order whatever its dry_run flag says.
FillOutcomesIgnoringDryRun(ticker, price, dry) == LiveOrder(ticker, price)

\* executor.py:95: the dry_run branch.
FillOutcomes(ticker, price, dry) ==
    IF dry THEN DryFill(ticker, price) ELSE LiveOrder(ticker, price)

\* IBExecutor.buy_fractional_by_amount, whole: every way the call can end.
\* reqTickersAsync raises, answers with no ticker, or answers with a market
\* price; then the price and quantity checks, then the fill.
BuyOutcomes(ticker, amount_usd, connected, dry) ==
    IF ~connected THEN {Raised("IB not connected", "buy", 0, 0)}
    ELSE IF amount_usd <= 0 THEN {Raised("amount_usd must be > 0", "buy", 0, 0)}
    ELSE {Raised(msg, "quote", 1, 0) : msg \in ExtMsgs}
         \cup {Raised("no quote", "quote", 1, 0)}
         \cup UNION {IF PriceNotPositive(price)
                     THEN {Raised("bad price", "price", 1, 0)}
                     ELSE IF QtyDegenerate(amount_usd, price)
                     THEN {Raised("bad qty", "qty", 1, 0)}
                     ELSE FillOutcomes(ticker, price, dry) : price \in Prices}

\* A session that gives up the buy when the snapshot failed.
BuyUnlessSnapshotFailed(s, outs) ==
    IF s # None THEN {Raised(s[1], "snapshot", 0, 0)} ELSE outs

\* main.py:293-297: the snapshot's exception is caught and the buy is called
\* whatever the snapshot did.
BuyAfterSnapshot(s, outs) == outs

\* IBExecutor.disconnect: ib.disconnect() returns or raises; the handle is
\* cleared either way.
DisconnectOutcomes == {None, Some("disconnect error")}

\* A disconnect that clears the handle only when ib.disconnect() returns.
HandleAfterDisconnectKept(d) == d # None

\* executor.py:62-65: the handle after disconnect.
HandleAfterDisconnect(d) == FALSE

\* main.py:275-301, the scoped block after __aenter__: the snapshot, the buy,
\* then __aexit__.  The exception that leaves the block (the buy's, or
\* disconnect's own, which replaces it) is stored in error at main.py:300.
Session(r) ==
    /\ pc[r] = "session"
    /\ \E s \in SnapshotOutcomes, d \in DisconnectOutcomes :
       \E b \in BuyAfterSnapshot(s, BuyOutcomes(loc[r].top1[1].ticker[1],
                                                INVEST_AMOUNT_USD, ib[r], dry_run)) :
          LET exc == IF d # None THEN d ELSE b.raised
          IN /\ ib' = [ib EXCEPT ![r] = HandleAfterDisconnect(d)]
             /\ tally' = [tally EXCEPT ![r].quotes = @ + b.quotes,
                                       ![r].orders = @ + b.orders]
             /\ Step(r, "audit",
                     [loc[r] EXCEPT !.snapshot_err = s,
                                    !.result = b.result,
                                    !.error = exc,
                                    !.fault = IF b.fault = "none" /\ d # None
                                              THEN "disconnect" ELSE b.fault])
    /\ UNCHANGED <<clock, envVars, harnessVars, storeVars, approved, handed>>

\* The row main.py:308-318 hands to insert_execution.
AuditRow(r, l) ==
    [ticker |-> l.top1[1].ticker[1],
     amount_usd |-> INVEST_AMOUNT_USD,
     price |-> IF l.result = None THEN None ELSE l.result[1].price,
     qty |-> IF l.result = None THEN None ELSE l.result[1].qty,
     dry_run |-> dry_run,
     order_status |-> IF l.result = None THEN None ELSE l.result[1].order_status,
     error |-> PyOr(l.error, l.snapshot_err),
     created_at |-> l.now_utc,
     by |-> r]

\* The finally clause of main.py:302: insert_execution and commit.  A storage
\* error here is caught at main.py:337 and the run returns 0 with no row.  (A
\* failure after the commit leaves the row and returns 0 as well: that run is
\* the first branch.)
Audit(r) ==
    /\ pc[r] = "audit"
    /\ \/ /\ executions' = InsertExecution(executions, AuditRow(r, loc[r]))
          /\ Return0(r, "audited")
       \/ /\ UNCHANGED executions
          /\ Return0(r, "audit_error")
    /\ UNCHANGED <<clock, envVars, harnessVars, raw_news, signals, histVars, ib>>

Next ==
    \/ Tick
    \/ \E r \in Runs :
          \/ Start(r)
          \/ PreSnapshot(r)
          \/ PreSnapshotFailed(r)
          \/ Collect(r)
          \/ PersistRawNews(r)
          \/ Analyze(r)
          \/ StoreSignals(r)
          \/ SelectTop1(r)
          \/ RiskGate(r)
          \/ Connect(r)
          \/ Session(r)
          \/ Audit(r)

Spec == Init /\ [][Next]_vars

\* ------------------------------------------------------- ingestion harness
\* Items fed to insert_raw_news directly: a second title under a stored url
\* shows which of two conflicting values the table keeps.
IngestItems == ItemSet \cup {[url |-> "u1", raw_title |-> "t1 again"]}
IngestBatches == SeqsUpTo(IngestItems, MaxItems)

\* One call of insert_raw_news on the store, committed; the calls are made
\* one after the other by the one caller r1.
IngestCall ==
    /\ calls < MaxCalls
    /\ \E items \in IngestBatches :
          LET res == InsertRawNews(raw_news, items, "r1")
          IN /\ raw_news' = res.store
             /\ call_prev' = call_items
             /\ call_items' = items
             /\ call_ret' = res.rows
             /\ calls' = calls + 1
    /\ UNCHANGED <<clock, envVars, signals, executions, histVars, pc, loc, ib,
                   exit_at, status, normVars, an, sel, evalVars, cmp, col>>

NextIngest == IngestCall

\* The harness starts from the empty store; the environment plays no part in
\* insert_raw_news and is held at its defaults.
InitIngest == Init /\ dry_run /\ api_key /\ IsPaper(trading_mode)

SpecIngest == InitIngest /\ [][NextIngest]_vars

\* ------------------------------------------------------ normalizer harness
\* One element of a response goes through the normalizers.
NormalizeCall ==
    /\ \E e \in RawElements :
          /\ norm_raw' = e
          /\ norm_item' = Some(NormalizeElement(e))
    /\ UNCHANGED <<clock, envVars, storeVars, histVars, pc, loc, ib, exit_at, status,
                   ingestVars, an, sel, evalVars, cmp, col>>

NextNormalize == NormalizeCall

\* The normalizers read nothing but their argument: the harness starts from
\* the same state as the ingestion harness.
SpecNormalize == InitIngest /\ [][NextNormalize]_vars

\* -------------------------------------------------------- analyzer harness
\* Titles are numbered; the capability's right answer to title k is an object
\* whose sentiment is k tenths, except that it answers title 3 with something
\* that is not an object.
ElemFor(k) ==
    IF k = 3 THEN NotAnObj
    ELSE Obj(Str(<<"N", "V", "D", "A">>), Num(Fin(k)), List(<<>>))
AnswerTo(batch) == [k \in 1..Len(batch) |-> ElemFor(batch[k])]

\* What one request may bring back: an exception (timeout, HTTP error), text
\* that is not JSON, JSON that is not an array, or an array: the right one,
\* one that is an element short, or one that has an element too many.
Responses(batch) ==
    {[k |-> "raise"], [k |-> "text"], [k |-> "scalar"]}
    \cup {[k |-> "array", v |-> a] :
             a \in {AnswerTo(batch),
                    SubSeq(AnswerTo(batch), 1, Len(batch) - 1),
                    Append(AnswerTo(batch), NotAnObj)}}

\* _parse_json_array: the parsed list, or None for the ValueError.
ParseJsonArray(resp) == IF resp.k = "array" THEN Some(resp.v) ELSE None

\* A length check that lets a shorter array through.
LengthMatchesOrShorter(parsed, titles) == Len(parsed) <= Len(titles)

\* ai_analyzer.py:115: the length check.
LengthMatches(parsed, titles) == Len(parsed) = Len(titles)

\* One attempt of _analyze_batch: the items, or None when it raises.
AnalyzeBatch(resp, titles) ==
    IF resp.k = "raise" THEN None
    ELSE LET parsed == ParseJsonArray(resp)
         IN IF parsed = None THEN None
            ELSE IF ~LengthMatches(parsed[1], titles) THEN None
            ELSE Some([k \in 1..Len(parsed[1]) |-> NormalizeElement(parsed[1][k])])

\* titles[i : i + batch_size], with Python's offsets.
Slice(titles, i, n) ==
    SubSeq(titles, i + 1, IF i + n < Len(titles) THEN i + n ELSE Len(titles))

\* The loop goes on to the next batch, or analyze_titles returns.
NextBatch(a, entry, out) ==
    [a EXCEPT !.i = a.i + a.batch_size, !.attempts = 0, !.out = out,
              !.log = Append(a.log, entry),
              !.pc = IF a.i + a.batch_size < Len(a.titles) THEN "batch" ELSE "done"]

\* A handler that gives up the whole call when a batch fails.
BatchFailedAbort(a, entry) ==
    [a EXCEPT !.attempts = 0, !.log = Append(a.log, entry), !.pc = "done"]

\* ai_analyzer.py:93-96: the batch is skipped and the loop continues.
BatchFailed(a, entry) == NextBatch(a, entry, a.out)

\* What a request brought back, as the harness remembers it: its kind and,
\* of an array, its length.
Brought(resp) == [k |-> resp.k, len |-> IF resp.k = "array" THEN Len(resp.v) ELSE 0]

\* A retry policy that allows one attempt more.
RetryStopsLate(made) == made >= STOP_AFTER_ATTEMPT + 1

\* ai_analyzer.py:99: stop_after_attempt(4), reraise=True.
RetryStops(made) == made >= STOP_AFTER_ATTEMPT

\* analyze_titles is called.
AnalyzeTitlesCall ==
    /\ an.pc = "idle"
    /\ \E n \in 0..MaxTitles, size \in 1..MaxBatch :
          an' = [NoCall EXCEPT !.titles = [k \in 1..n |-> k], !.batch_size = size,
                               !.pc = IF n = 0 THEN "done" ELSE "batch"]
    /\ UNCHANGED <<clock, envVars, storeVars, histVars, pc, loc, ib, exit_at, status,
                   ingestVars, normVars, sel, evalVars, cmp, col>>

\* One attempt on the current batch.  tenacity tries _analyze_batch again
\* until the attempt STOP_AFTER_ATTEMPT, whose exception it re-raises.
AnalyzeBatchAttempt ==
    /\ an.pc = "batch"
    /\ LET batch == Slice(an.titles, an.i, an.batch_size)
       IN \E resp \in Responses(batch) :
             LET got == AnalyzeBatch(resp, batch)
                 made == an.attempts + 1
                 asked == [an EXCEPT !.last = Brought(resp)]
             IN an' = IF got # None
                      THEN NextBatch(asked, [at |-> an.i, attempts |-> made, ok |-> TRUE,
                                             added |-> Len(got[1])],
                                     an.out \o got[1])
                      ELSE IF ~RetryStops(made)
                      THEN [asked EXCEPT !.attempts = made]
                      ELSE BatchFailed(asked, [at |-> an.i, attempts |-> made, ok |-> FALSE,
                                               added |-> 0])
    /\ UNCHANGED <<clock, envVars, storeVars, histVars, pc, loc, ib, exit_at, status,
                   ingestVars, normVars, sel, evalVars, cmp, col>>

NextAnalyze == AnalyzeTitlesCall \/ AnalyzeBatchAttempt

SpecAnalyze == InitIngest /\ [][NextAnalyze]_vars

\* The same with the loop of analyze_titles running on: every request comes
\* back or raises (the client's timeout), and the wait between attempts is
\* bounded.
SpecAnalyzeFair == SpecAnalyze /\ WF_vars(AnalyzeBatchAttempt)

\* ------------------------------------------------------- selection harness
\* Rows of sentiment_signal: with or without a ticker, below or above the
\* threshold, with or without a risk tag, of any day.
SignalRows == [ticker : {None, Some("NVDA")}, score : {2, 9},
               risk_tags : {{}, {"fraud"}}, created_at : Days]

\* One more row is stored in the harness's table, up to MaxRows rows.
SelectInsert ==
    /\ Len(sel.store) < MaxRows
    /\ \E row \in SignalRows :
          sel' = [NoSelect EXCEPT !.store = Append(sel.store, row)]
    /\ UNCHANGED <<clock, envVars, storeVars, histVars, pc, loc, ib, exit_at, status,
                   ingestVars, normVars, an, evalVars, cmp, col>>

\* select_top1_today_no_risk over the harness's table; the value returned is
\* the row's primary key, its place in insertion order.
SelectCall ==
    /\ \E day_start_utc \in Days :
          LET rows == Top1TodayNoRisk(sel.store, day_start_utc)
          IN \E ret \in (IF rows = {} THEN {None} ELSE {Some(k) : k \in rows}) :
                sel' = [sel EXCEPT !.day_start_utc = day_start_utc,
                                   !.ret = ret, !.called = TRUE]
    /\ UNCHANGED <<clock, envVars, storeVars, histVars, pc, loc, ib, exit_at, status,
                   ingestVars, normVars, an, evalVars, cmp, col>>

NextSelect == SelectInsert \/ SelectCall

SpecSelect == InitIngest /\ [][NextSelect]_vars

\* ------------------------------------------------------- outcome evaluator
\* Ids of the stored executions: a row's primary key is its place in
\* insertion order.
ExecIds(store) == 1..Len(store)

\* evaluate.py:104-110: the executions created at or before the cutoff that
\* have no outcome, ORDER BY created_at ASC LIMIT 50.  Rows that tie on
\* created_at may come in either order.
RECURSIVE OldestFirst(_, _, _)
OldestFirst(execs, ids, n) ==
    IF n = 0 \/ ids = {} THEN {<<>>}
    ELSE LET oldest == {x \in ids : \A y \in ids :
                           execs[x].created_at <= execs[y].created_at}
         IN UNION {{<<x>> \o rest : rest \in OldestFirst(execs, ids \ {x}, n - 1)} :
                      x \in oldest}

SelectUnresolved(execs, outs, now_utc) ==
    LET cutoff == now_utc - EVAL_AGE_DAYS
        done == {outs[k].trade_execution_id : k \in 1..Len(outs)}
        ids == {x \in ExecIds(execs) : execs[x].created_at <= cutoff /\ x \notin done}
    IN OldestFirst(execs, ids, EVAL_LIMIT)

\* compute_outcome_prices: the calendar gives too few sessions, a price
\* series cannot be loaded, a close is missing for a needed session, or the
\* six closes are returned.
ComputeOutcomes == {"no_sessions", "no_series", "no_close", "prices"}

\* A ticker the price service holds nothing for (delisted, or not a symbol):
\* _load_close_series raises for it on every run.
NoDataTicker == "DEAD"
ComputeOutcomesFor(ticker) ==
    IF ticker = NoDataTicker THEN {"no_series"} ELSE ComputeOutcomes

\* The TradeOutcome row built at evaluate.py:123-135; entry_session is the
\* date of the execution's created_at.
OutcomeRow(execs, x) ==
    [trade_execution_id |-> x, ticker |-> execs[x].ticker,
     entry_session |-> execs[x].created_at]

\* An insert into a trade_outcome table that has no unique constraint.
InsertOutcomeNoUnique(store, row) == [ok |-> TRUE, store |-> Append(store, row)]

\* session.add(out) and commit under the unique constraint on
\* trade_execution_id (models.py:91): a second row for the same execution is
\* refused with an IntegrityError and the table is left as it was.
InsertOutcome(store, row) ==
    IF \E k \in 1..Len(store) : store[k].trade_execution_id = row.trade_execution_id
    THEN [ok |-> FALSE, store |-> store]
    ELSE [ok |-> TRUE, store |-> Append(store, row)]

\* The loop goes on to the next execution, or the run returns 0 after the
\* last one.
EvalNext(l, entry) ==
    LET log == Append(l.log, entry)
    IN IF Len(log) = Len(l.batch)
       THEN [l EXCEPT !.log = log, !.pc = "done", !.status = Some(0),
                      !.how = "returned"]
       ELSE [l EXCEPT !.log = log]

\* A handler that gives up the rest of the batch.
EvalFailedAbort(l, entry) ==
    [l EXCEPT !.log = Append(l.log, entry), !.pc = "done", !.status = Some(0),
              !.how = "returned"]

\* evaluate.py:143-145: except Exception: log and continue.
EvalFailed(l, entry) == EvalNext(l, entry)

\* An execution row is written by a coordinator run (the audit row of a dry
\* fill), stamped with the current day.
EvalSeedExecution ==
    /\ Len(executions) < MaxExecs
    /\ executions' = InsertExecution(executions,
                        [ticker |-> "NVDA", amount_usd |-> INVEST_AMOUNT_USD,
                         price |-> Some(20),
                         qty |-> Some(Qty(INVEST_AMOUNT_USD, 20)),
                         dry_run |-> TRUE, order_status |-> None, error |-> None,
                         created_at |-> clock, by |-> "r1"])
    /\ UNCHANGED <<clock, envVars, raw_news, signals, histVars, pc, loc, ib, exit_at,
                   status, ingestVars, normVars, an, sel, evalVars, cmp, col>>

\* A day passes.
EvalTick ==
    /\ clock < MaxEvalDay
    /\ clock' = clock + 1
    /\ UNCHANGED <<envVars, storeVars, histVars, pc, loc, ib, exit_at, status,
                   ingestVars, normVars, an, sel, evalVars, cmp, col>>

\* evaluate.py:95-116: now_utc is read, init_db and the select run.  An
\* exception here leaves _async_main and main; the entry point at
\* evaluate.py:158-159 is raise SystemExit(main()) with no handler, so the
\* interpreter ends the process with a traceback and status 1.  An empty
\* batch returns 0.
EvalStart(e) ==
    /\ ev[e].pc \in {"idle", "done"}
    /\ \/ ev' = [ev EXCEPT ![e] = [NoEval EXCEPT !.pc = "done", !.status = Some(1),
                                                !.how = "uncaught"]]
       \/ \E batch \in SelectUnresolved(executions, outcomes, clock) :
             ev' = [ev EXCEPT ![e] =
                       IF batch = <<>>
                       THEN [NoEval EXCEPT !.pc = "done", !.status = Some(0),
                                           !.how = "returned"]
                       ELSE [NoEval EXCEPT !.pc = "loop", !.batch = batch]]
    /\ UNCHANGED <<clock, envVars, storeVars, histVars, pc, loc, ib, exit_at, status,
                   ingestVars, normVars, an, sel, outcomes, cmp, col>>

\* evaluate.py:119-145, one turn of the loop: the prices are computed, the
\* row is added and committed in a session of its own; whatever is raised is
\* caught and the loop goes on.
EvalOne(e) ==
    /\ ev[e].pc = "loop"
    /\ LET x == ev[e].batch[Len(ev[e].log) + 1]
       IN \E c \in ComputeOutcomesFor(executions[x].ticker) :
             IF c # "prices"
             THEN /\ ev' = [ev EXCEPT ![e] =
                                EvalFailed(ev[e], [id |-> x, fate |-> "no_data"])]
                  /\ UNCHANGED outcomes
             ELSE \/ LET res == InsertOutcome(outcomes, OutcomeRow(executions, x))
                     IN IF res.ok
                        THEN /\ outcomes' = res.store
                             /\ ev' = [ev EXCEPT ![e] =
                                          EvalNext(ev[e], [id |-> x, fate |-> "inserted"])]
                        ELSE /\ UNCHANGED outcomes
                             /\ ev' = [ev EXCEPT ![e] =
                                          EvalFailed(ev[e], [id |-> x, fate |-> "duplicate"])]
                  \/ /\ UNCHANGED outcomes
                     /\ ev' = [ev EXCEPT ![e] =
                                  EvalFailed(ev[e], [id |-> x, fate |-> "storage_error"])]
    /\ UNCHANGED <<clock, envVars, storeVars, histVars, pc, loc, ib, exit_at, status,
                   ingestVars, normVars, an, sel, cmp, col>>

NextEval ==
    \/ EvalSeedExecution
    \/ EvalTick
    \/ \E e \in Evals : EvalStart(e) \/ EvalOne(e)

SpecEval == InitIngest /\ [][NextEval]_vars

\* The evaluator against a backlog: the table holds executions of earlier
\* days, one per day and all older than the buffer window, first those of a
\* ticker without price data and then one of NVDA.  A row is added between
\* evaluator runs (a run reads the table once, at its start).
BacklogSeed ==
    /\ Len(executions) < MaxBacklog
    /\ ev["e1"].pc # "loop"
    /\ IF executions = <<>> THEN TRUE
       ELSE executions[Len(executions)].ticker = NoDataTicker
    /\ \E ticker \in {NoDataTicker, "NVDA"} :
          executions' = InsertExecution(executions,
                           [ticker |-> ticker, amount_usd |-> INVEST_AMOUNT_USD,
                            price |-> Some(20),
                            qty |-> Some(Qty(INVEST_AMOUNT_USD, 20)),
                            dry_run |-> TRUE, order_status |-> None, error |-> None,
                            created_at |-> Len(executions) - MaxBacklog - EVAL_AGE_DAYS,
                            by |-> "r1"])
    /\ UNCHANGED <<clock, envVars, raw_news, signals, histVars, pc, loc, ib, exit_at,
                   status, ingestVars, normVars, an, sel, evalVars, cmp, col>>

NextBacklog == BacklogSeed \/ EvalStart("e1") \/ EvalOne("e1")

SpecBacklog == InitIngest /\ [][NextBacklog]_vars

\* ----------------------------------------------------- outcome-price harness
\* Dates are day numbers; days 5 and 6 of each week are the weekend.
IsWeekend(d) == d % 7 \in {5, 6}

\* The elements of a set of numbers in ascending order.
RECURSIVE Ascending(_)
Ascending(S) ==
    IF S = {} THEN <<>>
    ELSE LET m == CHOOSE x \in S : \A y \in S : x <= y
         IN <<m>> \o Ascending(S \ {m})

\* _trading_sessions: the sessions of the exchange calendar from start to
\* end; the calendar knows no day after cal_end.
TradingSessions(start, end, holidays, cal_end) ==
    Ascending({d \in start..end : ~IsWeekend(d) /\ d \notin holidays /\ d <= cal_end})

\* The daily closes the data service holds for a symbol: the close of every
\* session (a price that tells the symbol and the day apart), but for the
\* defect: no data for the symbol at all, no row for one day, or a row whose
\* close is nan.
CloseData(symbol, holidays, defect) ==
    LET days == {d \in 0..(MaxEntryDay + DAYS_AFTER + SERIES_AFTER_DAYS) :
                    ~IsWeekend(d) /\ d \notin holidays}
        base == IF symbol = "SPY" THEN 500 ELSE 100
        mine == defect.symbol = symbol
        kept == IF mine /\ defect.kind = "empty" THEN {}
                ELSE IF mine /\ defect.kind = "no_row" THEN days \ {defect.day}
                ELSE days
    IN [d \in kept |-> IF mine /\ defect.kind = "nan_row" /\ d = defect.day
                       THEN NaN ELSE Fin(base + d)]

\* _load_close_series: the rows from start to end; none at all raises.
LoadCloseSeries(data, start, end) ==
    LET idx == {d \in DOMAIN data : start <= d /\ d <= end}
    IN IF idx = {} THEN None ELSE Some([d \in idx |-> data[d]])

\* _pick_close: a session that is not in the index raises; float(v)
\* otherwise, which takes nan as it is.
PickClose(close, session) ==
    IF session \notin DOMAIN close THEN None ELSE Some(close[session])

\* compute_outcome_prices: None when anything raises, the six closes
\* otherwise.
ComputeOutcomePrices(entry_session, holidays, cal_end, sym_data, spy_data) ==
    LET sessions == TradingSessions(entry_session - DAYS_BEFORE,
                                   entry_session + DAYS_AFTER, holidays, cal_end)
        in_list == \E k \in 1..Len(sessions) : sessions[k] = entry_session
        next_sessions == SelectSeq(sessions, LAMBDA x : x > entry_session)
    IN IF ~in_list /\ next_sessions = <<>> THEN None
       ELSE LET entry == IF in_list THEN entry_session ELSE next_sessions[1]
                idx == CHOOSE k \in 1..Len(sessions) : sessions[k] = entry
            IN IF idx + T7_SESSIONS > Len(sessions) THEN None
               ELSE LET t3 == sessions[idx + T3_SESSIONS]
                        t7 == sessions[idx + T7_SESSIONS]
                        start == sessions[IF idx - SERIES_BEFORE > 1
                                          THEN idx - SERIES_BEFORE ELSE 1]
                        end == t7 + SERIES_AFTER_DAYS
                        close_sym == LoadCloseSeries(sym_data, start, end)
                        close_spy == LoadCloseSeries(spy_data, start, end)
                    IN IF close_sym = None \/ close_spy = None THEN None
                       ELSE LET picks == <<PickClose(close_sym[1], entry),
                                           PickClose(close_sym[1], t3),
                                           PickClose(close_sym[1], t7),
                                           PickClose(close_spy[1], entry),
                                           PickClose(close_spy[1], t3),
                                           PickClose(close_spy[1], t7)>>
                            IN IF \E k \in 1..6 : picks[k] = None THEN None
                               ELSE Some([entry_close |-> picks[1][1],
                                          t3_close |-> picks[2][1],
                                          t7_close |-> picks[3][1],
                                          spy_entry_close |-> picks[4][1],
                                          spy_t3_close |-> picks[5][1],
                                          spy_t7_close |-> picks[6][1]])

\* evaluate.py:123-135: the TradeOutcome built from the prices; its
\* entry_session is the caller's entry_session, the date of the execution.
TradeOutcomeOf(entry_session, prices) ==
    [entry_session |-> entry_session, entry_close |-> prices.entry_close,
     t3_close |-> prices.t3_close, t7_close |-> prices.t7_close]

\* The entry dates of the harness (a whole week, weekend included), the
\* calendars (no holiday, or one on the entry date, or one inside the next
\* seven sessions; complete, or ending too early for T+7, or ending before
\* the entry date), and the defects of the data.
EntryDays == DAYS_BEFORE..MaxEntryDay
HolidaySets(entry) == {{}, {entry}, {entry + 2}}
CalendarEnds(entry) == {entry + DAYS_AFTER, entry + T7_SESSIONS, entry - 1}
Defects(entry) ==
    {[kind |-> "none", symbol |-> "", day |-> 0]}
    \cup [kind : {"empty"}, symbol : {"NVDA", "SPY"}, day : {0}]
    \cup [kind : {"no_row", "nan_row"}, symbol : {"NVDA", "SPY"},
          day : entry..(entry + DAYS_AFTER)]

\* An execution's entry date and the calendar of the days around it.
ComputeInput ==
    /\ \E entry \in EntryDays :
          \E holidays \in HolidaySets(entry), cal_end \in CalendarEnds(entry) :
             cmp' = [NoCompute EXCEPT !.entry = entry, !.holidays = holidays,
                                      !.cal_end = cal_end]
    /\ UNCHANGED <<clock, envVars, storeVars, histVars, pc, loc, ib, exit_at, status,
                   ingestVars, normVars, an, sel, evalVars, col>>

\* compute_outcome_prices(entry_session, "NVDA") against some state of the
\* price data, and the row the evaluator builds from what it returns.
ComputeCall ==
    /\ cmp.entry # 0
    /\ \E defect \in Defects(cmp.entry) :
          LET prices == ComputeOutcomePrices(cmp.entry, cmp.holidays, cmp.cal_end,
                            CloseData("NVDA", cmp.holidays, defect),
                            CloseData("SPY", cmp.holidays, defect))
          IN cmp' = [cmp EXCEPT
                        !.called = TRUE, !.defect = defect, !.ret = prices,
                        !.row = IF prices = None THEN None
                                ELSE Some(TradeOutcomeOf(cmp.entry, prices[1]))]
    /\ UNCHANGED <<clock, envVars, storeVars, histVars, pc, loc, ib, exit_at, status,
                   ingestVars, normVars, an, sel, evalVars, col>>

NextCompute == ComputeInput \/ ComputeCall

SpecCompute == InitIngest /\ [][NextCompute]_vars

\* --------------------------------------------------------- collector harness
\* Strings are sequences of characters here.  What the feeds may hold: an
\* entry's title and link, a post's title, permalink and url, any of them
\* empty.
FeedEntries == [title : {<<>>, <<"a">>, <<" ", "a">>}, link : {<<>>, <<"u">>}]
RedditPosts == [title : {<<>>, <<"a">>}, permalink : {<<>>, <<"/", "p">>},
                url : {<<>>, <<"u">>}]

\* The host that reddit_collector.py:68 puts before a permalink.
RedditHost == <<"r">>

\* a or b of two strings.
StrOr(a, b) == IF a # <<>> THEN a ELSE b

\* The key of the in-memory pass: url, or the title when url is empty.
DedupKey(title, url) == StrOr(url, title)

\* The loop over entries or posts, each already reduced to its stripped
\* title and url: an item with neither is dropped, an item whose key was seen
\* is dropped, the others are kept in order.
RECURSIVE KeepUnseen(_, _)
KeepUnseen(items, seen) ==
    IF items = <<>> THEN <<>>
    ELSE LET title == Head(items).title
             url == Head(items).url
             key == DedupKey(title, url)
         IN IF (title = <<>> /\ url = <<>>) \/ key \in seen
            THEN KeepUnseen(Tail(items), seen)
            ELSE <<[raw_title |-> StrOr(title, url), url |-> url]>>
                 \o KeepUnseen(Tail(items), seen \cup {key})

\* RSSCollector.fetch over the entries of its feeds.
RssFetch(entries) ==
    KeepUnseen([k \in 1..Len(entries) |->
                   [title |-> Strip(entries[k].title), url |-> Strip(entries[k].link)]],
               {})

\* RedditCollector.fetch over the posts of its subreddits: the url is the
\* permalink under the host, or the post's own url when it has no permalink.
RedditFetch(posts) ==
    KeepUnseen([k \in 1..Len(posts) |->
                   [title |-> Strip(posts[k].title),
                    url |-> Strip(IF Strip(posts[k].permalink) # <<>>
                                  THEN RedditHost \o Strip(posts[k].permalink)
                                  ELSE posts[k].url)]],
               {})

\* A feed has one entry more.
CollectFeedEntry ==
    /\ Len(col.entries) < MaxFeed
    /\ \E e \in FeedEntries :
          col' = [NoCollect EXCEPT !.entries = Append(col.entries, e),
                                   !.posts = col.posts]
    /\ UNCHANGED <<clock, envVars, storeVars, histVars, pc, loc, ib, exit_at, status,
                   ingestVars, normVars, an, sel, evalVars, cmp>>

\* A subreddit has one post more.
CollectPost ==
    /\ Len(col.posts) < MaxFeed
    /\ \E p \in RedditPosts :
          col' = [NoCollect EXCEPT !.entries = col.entries,
                                   !.posts = Append(col.posts, p)]
    /\ UNCHANGED <<clock, envVars, storeVars, histVars, pc, loc, ib, exit_at, status,
                   ingestVars, normVars, an, sel, evalVars, cmp>>

\* main.py:98-100: both collectors fetch and their lists are concatenated.
CollectCall ==
    /\ ~col.called
    /\ col' = [col EXCEPT !.called = TRUE,
                          !.raw_items = RssFetch(col.entries) \o RedditFetch(col.posts)]
    /\ UNCHANGED <<clock, envVars, storeVars, histVars, pc, loc, ib, exit_at, status,
                   ingestVars, normVars, an, sel, evalVars, cmp>>

NextCollect == CollectFeedEntry \/ CollectPost \/ CollectCall

SpecCollect == InitIngest /\ [][NextCollect]_vars

\* ================================================================== claims
\* Rows of the execution table written by run r, and urls of a sequence of
\* rows or items.
RowsBy(store, r) == {k \in 1..Len(store) : store[k].by = r}
UrlsOf(rows) == {rows[k].url : k \in 1..Len(rows)}
RowsOfDay(store, d) == {k \in 1..Len(store) : store[k].created_at = d}
NoDupUrls(store) ==
    \A j, k \in 1..Len(store) : store[j].url = store[k].url => j = k

\* C1: in every reachable state, for every UTC day, the number of execution
\* rows whose created_at lies in that day is at most max_daily_trades, also
\* when runs overlap.
C1_DailyCapRespected ==
    \A d \in Days : Cardinality(RowsOfDay(executions, d)) <= MAX_DAILY_TRADES

\* C2: every run that the risk gate approved has, once it has ended, appended
\* exactly one execution row.
C2_OneRowPerApprovedRun ==
    \A r \in Runs :
        (pc[r] = "done" /\ approved[r]) => Cardinality(RowsBy(executions, r)) = 1

C4_DryRunNeverOrders ==
    dry_run =>
        \A r \in Runs :
            /\ tally[r].orders = 0
            /\ (pc[r] = "audit" /\ loc[r].result # None) =>
                  LET res == loc[r].result[1]
                  IN /\ res.dry_run
                     /\ res.order_status = None
                     /\ res.price # None /\ res.qty # None
                     /\ res.price[1] \in Prices
                     /\ \/ res.price[1] = NaNPrice /\ res.qty[1] = NaNPrice
                        \/ /\ res.price[1] > 0
                           /\ res.qty[1] * res.price[1] <= INVEST_AMOUNT_USD * QTY_EPS_INV
                           /\ (res.qty[1] + 1) * res.price[1]
                                 > INVEST_AMOUNT_USD * QTY_EPS_INV
            /\ \A k \in RowsBy(executions, r) :
                  /\ executions[k].dry_run
                  /\ executions[k].order_status = None

\* C4's case: a dry run that ended with its audit row of a simulated fill.
C4_Witness ==
    /\ dry_run
    /\ \E r \in Runs :
          /\ exit_at[r] = "audited"
          /\ tally[r].quotes = 1
          /\ \E k \in RowsBy(executions, r) :
                executions[k].price # None /\ executions[k].error = None

\* With a trading mode other than paper no run opens a broker connection,
\* requests a quote or places an order.
NoBrokerContactUnlessPaper ==
    ~IsPaper(trading_mode) =>
        \A r \in Runs : tally[r].connects = 0 /\ tally[r].quotes = 0
                        /\ tally[r].orders = 0 /\ ~ib[r]

\* C5: with a trading mode other than paper, whatever dry_run is, no run
\* contacts the broker, and every approved run that has ended has its audit
\* row carrying the refusal.
C5_NonPaperRefusedAndAudited ==
    /\ NoBrokerContactUnlessPaper
    /\ ~IsPaper(trading_mode) =>
          \A r \in Runs :
              (pc[r] = "done" /\ approved[r]) =>
                  \E k \in RowsBy(executions, r) :
                      /\ executions[k].error = Some("TRADING_MODE must be paper")
                      /\ executions[k].price = None /\ executions[k].qty = None

\* C6: a run that takes the risk-gate step while the execution table holds a
\* row of the current UTC day is rejected there, whatever its candidate: it
\* ends without approval, having requested no quote, placed no order and
\* written no row; and a run that ended without approval never has any.
C6_CapRejectsAfterTodaysRow ==
    /\ [][\A r \in Runs :
            (pc[r] = "gate" /\ pc'[r] # "gate" /\ RowsOfDay(executions, clock) # {})
            => /\ pc'[r] = "done"
               /\ exit_at'[r] \in {"below_threshold", "cap_reached", "execution_error"}
               /\ ~approved'[r]
               /\ executions' = executions]_vars
    /\ [](\A r \in Runs :
            ~approved[r] => /\ tally[r].connects = 0 /\ tally[r].quotes = 0
                            /\ tally[r].orders = 0
                            /\ RowsBy(executions, r) = {})

\* C6's case: a run ended at the cap while another run's row of the current
\* day is in the table.
C6_Witness ==
    \E r, q \in Runs :
        /\ r # q
        /\ exit_at[q] = "audited"
        /\ exit_at[r] = "cap_reached"
        /\ \E k \in RowsBy(executions, q) : executions[k].created_at = clock

\* C7: a run that ended on a storage error of the RawNews step has handed
\* nothing to the analyzer, stored no signal, was never approved, opened no
\* broker session, requested no quote, placed no order and wrote no execution
\* row.
C7_PersistFailureStopsRun ==
    \A r \in Runs :
        exit_at[r] = "persist_error" =>
            /\ handed[r] = {}
            /\ tally[r] = NoTally
            /\ ~approved[r]
            /\ ~ib[r]
            /\ RowsBy(executions, r) = {}

\* C7's case: one run ended on the storage error while the other went on to
\* store signals.
C7_Witness ==
    \E r, q \in Runs :
        /\ exit_at[r] = "persist_error" /\ status[r] = Some(0)
        /\ tally[q].signals > 0

\* Items of batch with a url, and the urls a batch would newly persist into
\* store.
Keyed(batch) == {k \in 1..Len(batch) : batch[k].url # ""}
NewUrls(store, batch) == {batch[k].url : k \in Keyed(batch)} \ UrlsOf(store)

\* C8: after every ingestion call the table holds no two rows with the same
\* url; an item with a url that was in the previous call's batch too has
\* exactly one row and is not among the rows the call returns; and a call
\* that repeats the previous batch returns nothing and leaves the table as
\* it was.
C8_DedupIdempotent ==
    [][calls' = calls + 1 =>
          /\ NoDupUrls(raw_news')
          /\ \A j \in Keyed(call_items), k \in Keyed(call_items') :
                call_items[j].url = call_items'[k].url =>
                    /\ Cardinality({n \in 1..Len(raw_news') :
                                       raw_news'[n].url = call_items'[k].url}) = 1
                    /\ call_items'[k].url \notin UrlsOf(call_ret')
          /\ (calls >= 1 /\ call_items' = call_items) =>
                (call_ret' = <<>> /\ raw_news' = raw_news)]_vars

\* C8's case: the same batch, holding an item with a url, was fed twice in
\* succession; the second call returned nothing and one row is stored.
C8_Witness ==
    /\ calls >= 2
    /\ call_prev = call_items
    /\ Keyed(call_items) # {}
    /\ call_ret = <<>>
    /\ Len(raw_news) = 1

\* C9: every ingestion call returns one row per distinct non-empty url of
\* its batch that the table did not hold before the call, each row carrying
\* an item of the batch; these rows are exactly what the call appended to the
\* table; rows already stored are unchanged; no row with an empty url is
\* stored or returned.
C9_ReturnsExactlyNew ==
    [][calls' = calls + 1 =>
          /\ UrlsOf(call_ret') = NewUrls(raw_news, call_items')
          /\ Len(call_ret') = Cardinality(NewUrls(raw_news, call_items'))
          /\ \A n \in 1..Len(call_ret') :
                \E k \in Keyed(call_items') :
                    /\ call_items'[k].url = call_ret'[n].url
                    /\ call_items'[k].raw_title = call_ret'[n].raw_title
          /\ raw_news' = raw_news \o call_ret'
          /\ "" \notin UrlsOf(raw_news') \cup UrlsOf(call_ret')]_vars

\* C9's case: a call whose batch held an item under a url stored by the call
\* before and an item under a new url returned the new one alone.
C9_Witness ==
    /\ calls >= 2
    /\ Len(call_items) = 2
    /\ UrlsOf(call_items) \cap UrlsOf(call_prev) # {}
    /\ "" \notin UrlsOf(call_prev)
    /\ Len(call_ret) = 1
    /\ Len(raw_news) = 2

\* C10: the urls whose titles a run handed to the analyzer are urls of rows
\* that run's own insert persisted, and no url is handed to the analyzer by
\* two runs.
C10_AnalyzedOnlyByPersistingRun ==
    /\ \A r \in Runs :
          handed[r] \subseteq {raw_news[k].url : k \in RowsBy(raw_news, r)}
    /\ \A r, q \in Runs : r # q => handed[r] \cap handed[q] = {}

\* C10's case: a run that collected a url which the other run had persisted
\* and analyzed is about to analyze, and that url is not among its new rows.
C10_Witness ==
    \E r, q \in Runs :
        /\ r # q
        /\ "u1" \in handed[q]
        /\ pc[r] = "analyze"
        /\ "u1" \in UrlsOf(loc[r].raw_items)
        /\ UrlsOf(loc[r].inserted_rows) = {"u2"}

\* The items the right answers to the titles of a batch normalize to, and
\* the output made of the batches of a log that succeeded, in order.
ExpectedItems(batch) == [k \in 1..Len(batch) |-> NormalizeElement(ElemFor(batch[k]))]
RECURSIVE ExpectedOut(_, _, _)
ExpectedOut(log, titles, size) ==
    IF log = <<>> THEN <<>>
    ELSE (IF Head(log).ok THEN ExpectedItems(Slice(titles, Head(log).at, size)) ELSE <<>>)
         \o ExpectedOut(Tail(log), titles, size)
RECURSIVE SumAdded(_)
SumAdded(log) == IF log = <<>> THEN 0 ELSE Head(log).added + SumAdded(Tail(log))

\* C11: when analyze_titles returns, every batch of the input has been dealt
\* with, in input order, whether or not earlier batches failed; a batch is
\* given up only after STOP_AFTER_ATTEMPT attempts; and the output is the
\* concatenation, in input order, of the items of exactly the batches that
\* succeeded.
C11_FailedBatchSkippedOnly ==
    an.pc = "done" =>
        /\ Len(an.log) = Cardinality({i \in 0..(Len(an.titles) - 1) : i % an.batch_size = 0})
        /\ \A j \in 1..Len(an.log) :
              /\ an.log[j].at = (j - 1) * an.batch_size
              /\ an.log[j].attempts \in 1..STOP_AFTER_ATTEMPT
              /\ ~an.log[j].ok => an.log[j].attempts = STOP_AFTER_ATTEMPT
        /\ an.out = ExpectedOut(an.log, an.titles, an.batch_size)

\* C11's case: a call returned after a batch failed between two batches that
\* succeeded.
C11_Witness ==
    /\ an.pc = "done"
    /\ Len(an.log) >= 3
    /\ an.log[1].ok /\ ~an.log[2].ok /\ an.log[3].ok
    /\ Len(an.out) >= 2

\* C12: every batch dealt with added either nothing to the output or exactly
\* as many items as it has titles, the latter exactly when it succeeded; the
\* output is as long as the successful batches together and never longer
\* than the input.
C12_BatchAllOrNothing ==
    /\ \A j \in 1..Len(an.log) :
          LET b == Len(Slice(an.titles, an.log[j].at, an.batch_size))
          IN /\ an.log[j].added \in {0, b}
             /\ an.log[j].ok <=> an.log[j].added = b
    /\ Len(an.out) = SumAdded(an.log)
    /\ Len(an.out) <= Len(an.titles)

\* C12's case: a batch of two titles added two items and another batch added
\* none.
C12_Witness ==
    /\ an.batch_size = 2
    /\ \E j, k \in 1..Len(an.log) : an.log[j].added = 2 /\ an.log[k].added = 0

\* The raw ticker and sentiment of the element last normalized (null for an
\* element that is not an object).
RawTickerOf(e) == IF e.t = "obj" THEN e.ticker ELSE Null
RawSentimentOf(e) == IF e.t = "obj" THEN e.sentiment ELSE Null

\* C13: a ticker is accepted only if the raw value is a string matching
\* ^[A-Z]{1,6}([.-][A-Z]{1,4})?$ ; "aapl", "123", "" and null give no
\* ticker; "AAPL" and "BRK.B" are accepted as they are.
C13_TickerAcceptedOnlyIfMatches ==
    norm_item # None =>
        LET raw == RawTickerOf(norm_raw)
            got == norm_item[1].ticker
        IN /\ got # None => (raw.t = "str" /\ TickerReMatch(raw.v) /\ got = Some(raw.v))
           /\ (\/ raw.t = "null"
               \/ raw.t = "str" /\ raw.v \in {<<"a", "a", "p", "l">>, <<"1", "2", "3">>, <<>>})
                 => got = None
           /\ (raw.t = "str" /\ raw.v \in {<<"A", "A", "P", "L">>, <<"B", "R", "K", ".", "B">>})
                 => got = Some(raw.v)

\* C14: the sentiment of every item is a number within [-1, 1]; a raw number
\* above 1 gives 1, below -1 gives -1, inside the range gives itself; a raw
\* value that is not a number (null, a list, a word, NaN) gives 0.
C14_SentimentClamped ==
    norm_item # None =>
        LET raw == RawSentimentOf(norm_raw)
            got == norm_item[1].sentiment
        IN /\ ~got.nan /\ got.v >= 0 - 10 /\ got.v <= 10
           /\ (raw.t = "num" /\ ~raw.v.nan) =>
                 got.v = IF raw.v.v > 10 THEN 10
                         ELSE IF raw.v.v < 0 - 10 THEN 0 - 10 ELSE raw.v.v
           /\ (\/ raw.t \in {"null", "list"}
               \/ raw.t = "num" /\ raw.v.nan
               \/ raw.t = "str" /\ raw.v \in {<<"a", "b", "c">>, <<"n", "a", "n">>})
                 => got.v = 0

\* ---------------------------------------------------------------- C15, C16
\* The rows of the table that qualify for selection on the day.
Qualifying(store, day_start_utc) ==
    {k \in 1..Len(store) : /\ store[k].created_at >= day_start_utc
                           /\ store[k].ticker # None
                           /\ store[k].risk_tags = {}}

\* C15: selection returns a qualifying row (created since the UTC day start,
\* with a ticker, with no risk tag) whose sentiment no qualifying row exceeds,
\* and returns nothing exactly when no row qualifies.
C15_SelectionMaxOfQualifying ==
    sel.called =>
        LET q == Qualifying(sel.store, sel.day_start_utc)
        IN /\ sel.ret = None <=> q = {}
           /\ sel.ret # None =>
                 /\ sel.ret[1] \in q
                 /\ sel.store[sel.ret[1]].risk_tags = {}
                 /\ sel.store[sel.ret[1]].ticker # None
                 /\ sel.store[sel.ret[1]].created_at >= sel.day_start_utc
                 /\ \A j \in q : sel.store[j].score <= sel.store[sel.ret[1]].score

\* A risk-tagged row of higher sentiment, a ticker-less one and one of the day
\* before are in the table, and a lower qualifying row is returned.
C15_Witness ==
    /\ sel.called /\ sel.ret # None
    /\ \E j \in 1..Len(sel.store) :
          /\ sel.store[j].risk_tags # {}
          /\ sel.store[j].score > sel.store[sel.ret[1]].score
          /\ sel.store[j].created_at >= sel.day_start_utc
    /\ \E j \in 1..Len(sel.store) : sel.store[j].ticker = None

\* C16: among the qualifying rows that share the top sentiment the row
\* returned is the first by insertion order.
C16_FirstInsertedWins ==
    (sel.called /\ sel.ret # None) =>
        LET q == Qualifying(sel.store, sel.day_start_utc)
            top == {k \in q : \A j \in q : sel.store[j].score <= sel.store[k].score}
        IN \A k \in top : sel.ret[1] <= k

\* --------------------------------------------------------------------- C17
\* C17: a run leaves the risk gate approved exactly when its candidate's
\* sentiment is at least the threshold and the count of the day's executions
\* it read is below the cap (a count that could not be read approves nothing);
\* the approved run goes on to the broker with the same candidate, asks for at
\* most one session, one quote and one order, buys the candidate's ticker and
\* writes at most one row, for that ticker.
C17_GateIffThresholdAndCap ==
    /\ [][\A r \in Runs :
            /\ (pc[r] = "gate" /\ pc'[r] # "gate") =>
                  LET score == loc[r].top1[1].score
                      trades_today == CountExecutionsSince(executions, clock)
                  IN /\ approved'[r] => (score >= MIN_SENTIMENT_TO_TRADE
                                           /\ trades_today < MAX_DAILY_TRADES)
                     /\ (score >= MIN_SENTIMENT_TO_TRADE /\ trades_today < MAX_DAILY_TRADES
                           /\ exit_at'[r] # "execution_error") => approved'[r]
                     /\ approved'[r] <=> pc'[r] = "connect"
                     /\ approved'[r] => loc'[r].top1 = loc[r].top1
            /\ (pc[r] \in {"connect", "session"} /\ pc'[r] # pc[r]) =>
                  /\ approved[r]
                  /\ pc'[r] \in {"session", "audit"}
                  /\ loc'[r].top1 = loc[r].top1
                  /\ loc'[r].result # None =>
                        loc'[r].result[1].ticker = loc[r].top1[1].ticker[1]
            /\ (pc[r] = "audit" /\ pc'[r] # "audit" /\ executions' # executions) =>
                  /\ Len(executions') = Len(executions) + 1
                  /\ executions'[Len(executions')].ticker = loc[r].top1[1].ticker[1]
                  /\ executions'[Len(executions')].by = r]_vars
    /\ [](\A r \in Runs :
            /\ tally[r].connects <= 1 /\ tally[r].quotes <= 1 /\ tally[r].orders <= 1
            /\ Cardinality(RowsBy(executions, r)) <= 1
            /\ pc[r] \in {"connect", "session", "audit"} => approved[r])

\* C17's case: a candidate exactly on the threshold was approved and the one
\* order for it was placed.
C17_Witness ==
    \E r \in Runs :
        /\ approved[r] /\ pc[r] = "audit"
        /\ loc[r].top1[1].score = MIN_SENTIMENT_TO_TRADE
        /\ tally[r].orders = 1

\* ---------------------------------------------------------------- C18, C19
\* The entry the evaluator e wrote in its log on this step, if it handled an
\* execution on this step.
Handled(e) == ev[e].pc = "loop" /\ Len(ev'[e].log) = Len(ev[e].log) + 1
Entry(e) == ev'[e].log[Len(ev'[e].log)]
HasOutcome(outs, x) == \E k \in 1..Len(outs) : outs[k].trade_execution_id = x

\* C18: no two Outcome rows are for the same Execution, rows once written
\* stay as they are, and an evaluator that handles an Execution whose Outcome
\* exists leaves the table as it was, does not fail, and goes on to the next
\* Execution of its batch.
C18_OneOutcomePerExecution ==
    /\ [](\A j, k \in 1..Len(outcomes) :
            outcomes[j].trade_execution_id = outcomes[k].trade_execution_id => j = k)
    /\ [][/\ Len(outcomes) <= Len(outcomes')
          /\ SubSeq(outcomes', 1, Len(outcomes)) = outcomes
          /\ \A e \in Evals :
                (Handled(e) /\ HasOutcome(outcomes, Entry(e).id)) =>
                    /\ outcomes' = outcomes
                    /\ ev'[e].status # Some(1)
                    /\ ev'[e].batch = ev[e].batch
                    /\ ev'[e].pc = IF Len(ev'[e].log) < Len(ev[e].batch)
                                   THEN "loop" ELSE "done"]_vars

\* C18's case: two overlapping runs took the same two executions; one met the
\* other's Outcome of the first execution and then wrote the Outcome of the
\* second.
C18_Witness ==
    \E e \in Evals :
        /\ ev[e].pc = "done" /\ Len(ev[e].log) = 2
        /\ ev[e].log[1].fate = "duplicate"
        /\ ev[e].log[2].fate = "inserted"
        /\ Len(outcomes) = 2

\* C19: a run that handles an Execution whose data is missing writes no
\* Outcome on that step and goes on; a run that returned has handled every
\* Execution of its batch in order, and each one whose prices were computed
\* and whose insert the store did not fail has its Outcome.
C19_FailureDoesNotAbortBatch ==
    /\ [][\A e \in Evals :
            (Handled(e) /\ Entry(e).fate = "no_data") =>
                /\ outcomes' = outcomes
                /\ ev'[e].status # Some(1)
                /\ ev'[e].pc = IF Len(ev'[e].log) < Len(ev[e].batch)
                               THEN "loop" ELSE "done"]_vars
    /\ [](\A e \in Evals :
            /\ Len(ev[e].log) <= Len(ev[e].batch)
            /\ \A j \in 1..Len(ev[e].log) :
                  /\ ev[e].log[j].id = ev[e].batch[j]
                  /\ ev[e].log[j].fate \in {"inserted", "duplicate"}
                        => HasOutcome(outcomes, ev[e].log[j].id)
            /\ (ev[e].pc = "done" /\ ev[e].status = Some(0))
                  => Len(ev[e].log) = Len(ev[e].batch))

\* C19's case: the prices of the first execution of a batch could not be
\* computed, the second got its Outcome in the same run, and the first has
\* none.
C19_Witness ==
    \E e \in Evals :
        /\ ev[e].pc = "done" /\ Len(ev[e].log) = 2
        /\ ev[e].log[1].fate = "no_data"
        /\ ev[e].log[2].fate = "inserted"
        /\ ~HasOutcome(outcomes, ev[e].log[1].id)

\* --------------------------------------------------------------------- C20
\* C20: the executor holds a session only while its run is inside the scoped
\* block; every step that leaves the block, whatever the snapshot, the buy and
\* disconnect itself did, clears the handle, and a run that has ended holds
\* none.
C20_SessionReleasedOnExit ==
    /\ [][\A r \in Runs :
            (pc[r] = "session" /\ pc'[r] # "session") =>
                /\ ib[r] /\ ~ib'[r]
                /\ pc'[r] = "audit"]_vars
    /\ [](\A r \in Runs :
            /\ ib[r] <=> pc[r] = "session"
            /\ pc[r] \in {"audit", "done"} => ~ib[r])

\* C20's case: one run left the block on an exception of the order
\* submission, the other on a fill after which disconnect raised; neither
\* holds a session.
C20_Witness ==
    \E r, q \in Runs :
        /\ pc[r] = "audit" /\ loc[r].fault = "order" /\ ~ib[r]
        /\ pc[q] = "audit" /\ loc[q].fault = "disconnect" /\ loc[q].result # None
        /\ ~ib[q]

\* --------------------------------------------------------------------- C21
\* C21: the day start the cap count of a run uses (the day of the clock when
\* the gate reads now_utc, main.py:251) is the day start its selection used
\* (main.py:199).
C21_DayStartComputedOnce ==
    [][\A r \in Runs :
          (pc[r] = "gate" /\ pc'[r] # "gate" /\ exit_at'[r] # "below_threshold")
              => clock = loc[r].day_start]_vars

\* --------------------------------------------------------------------- C22
\* C22: a process that has ended either returned from its main function or
\* had its exception caught by its entry point; none ended on an exception
\* nothing caught.
C22_NoUncaughtException ==
    \A e \in Evals : ev[e].pc = "done" => ev[e].how \in {"returned", "caught"}

\* The pipeline's side of C22: a run ends with status 0 from one of its
\* stages, or with status 1 when init_db raised and the entry point of
\* main.py:349-353 caught it; a run that ended at a failure of a stage before
\* the broker has placed no order.
PipelineExitsSafely ==
    \A r \in Runs :
        pc[r] = "done" =>
            /\ status[r] \in {Some(0), Some(1)}
            /\ status[r] = Some(1) <=> exit_at[r] = "init_db_error"
            /\ exit_at[r] \in {"init_db_error", "collect_error", "persist_error",
                               "analysis_error", "execution_error"}
                  => tally[r].orders = 0 /\ tally[r].quotes = 0

\* --------------------------------------------------------------------- C23
\* C23, stage by stage for a run none of whose steps fails.  From the empty
\* store two collected items with one url leave one RawNews row; when the
\* only Signal stored is the run's NVDA item (no risk tag) it is the
\* candidate; a candidate at or above the threshold with no execution today
\* is approved; with dry-run set the buy returns the quote price, the
\* quantity amount / price and no order status without placing an order; and
\* the row then appended to the empty Execution table is the only one, with
\* dry_run true, price and qty populated and order_status null.
C23_EndToEndDryRun ==
    [][\A r \in Runs :
          /\ (/\ pc[r] = "persist" /\ pc'[r] = "analyze" /\ raw_news = <<>>
              /\ Len(loc[r].raw_items) = 2
              /\ loc[r].raw_items[1].url = loc[r].raw_items[2].url
              /\ loc[r].raw_items[1].url # "")
                => /\ Len(raw_news') = 1
                   /\ Len(loc'[r].inserted_rows) = 1
                   /\ loc'[r].inserted_rows[1].url = loc[r].raw_items[1].url
          /\ (/\ pc[r] = "select" /\ pc'[r] # "select"
              /\ exit_at'[r] # "analysis_error"
              /\ Len(signals) = 1
              /\ signals[1].ticker = Some("NVDA") /\ signals[1].risk_tags = {}
              /\ signals[1].created_at = loc[r].day_start)
                => pc'[r] = "gate" /\ loc'[r].top1 = Some(signals[1])
          /\ (/\ pc[r] = "gate" /\ pc'[r] # "gate"
              /\ exit_at'[r] # "execution_error"
              /\ loc[r].top1[1].score >= MIN_SENTIMENT_TO_TRADE
              /\ executions = <<>>)
                => approved'[r] /\ pc'[r] = "connect"
          /\ (/\ pc[r] = "session" /\ pc'[r] = "audit" /\ dry_run
              /\ loc'[r].result # None)
                => /\ loc'[r].result[1].dry_run
                   /\ loc'[r].result[1].price \in {Some(p) : p \in Prices \ {0}}
                   /\ loc'[r].result[1].qty =
                         Some(Qty(INVEST_AMOUNT_USD, loc'[r].result[1].price[1]))
                   /\ loc'[r].result[1].order_status = None
                   /\ tally'[r].orders = 0
          /\ (/\ pc[r] = "audit" /\ pc'[r] = "done" /\ exit_at'[r] = "audited"
              /\ dry_run /\ loc[r].result # None /\ executions = <<>>)
                => /\ Len(executions') = 1
                   /\ executions'[1].dry_run
                   /\ executions'[1].ticker = loc[r].top1[1].ticker[1]
                   /\ executions'[1].price = loc[r].result[1].price
                   /\ executions'[1].qty = loc[r].result[1].qty
                   /\ executions'[1].price # None /\ executions'[1].qty # None
                   /\ executions'[1].order_status = None]_vars

\* C23's case: one run alone, dry-run set, went from the empty store through
\* one RawNews row and one NVDA Signal to the single Execution row of a dry
\* fill.
C23_Witness ==
    \E r, q \in Runs :
        /\ r # q /\ pc[q] = "idle" /\ dry_run
        /\ exit_at[r] = "audited" /\ status[r] = Some(0)
        /\ Len(raw_news) = 1
        /\ Len(signals) = 1 /\ signals[1].ticker = Some("NVDA")
        /\ Len(executions) = 1
        /\ executions[1].dry_run /\ executions[1].ticker = "NVDA"
        /\ executions[1].price # None /\ executions[1].qty # None
        /\ executions[1].order_status = None /\ executions[1].error = None
        /\ tally[r].orders = 0

\* --------------------------------------------------------------------- C24
\* C24: every step leaves the Execution rows it found in place and unchanged;
\* the table only grows at its end.
C24_ExecutionsAppendOnly ==
    [][/\ Len(executions) <= Len(executions')
       /\ SubSeq(executions', 1, Len(executions)) = executions]_vars

\* C24's case: a second row was appended after a first one, by another run.
C24_Witness ==
    /\ Len(executions) = 2
    /\ executions[1].by # executions[2].by
    /\ \E r \in Runs : exit_at[r] = "audited" /\ executions[2].by = r

\* --------------------------------------------------------------------- C25
\* C25: when a run calls the analyzer, the title of every item it collected
\* without a url is among the titles handed over (handed holds the url of
\* each item handed over, the empty url for such an item).
C25_UrlLessItemsAnalyzed ==
    [][\A r \in Runs :
          (/\ pc[r] = "analyze" /\ pc'[r] = "signals"
           /\ \E k \in 1..Len(loc[r].raw_items) :
                 loc[r].raw_items[k].url = "" /\ loc[r].raw_items[k].raw_title # "")
              => "" \in handed'[r]]_vars

\* --------------------------------------------------------------------- C26
\* The exits of a run that found nothing to trade.
NoTradeExits == {"no_new_rows", "no_api_key", "no_top1", "below_threshold",
                 "cap_reached"}

\* C26: a run that ends at a no-trade exit returns status 0, its last step
\* leaves the Execution table as it was, and the run has opened no broker
\* session for execution, requested no quote, placed no order and written no
\* Execution row.
C26_NoTradeExitsAreNormal ==
    /\ [][\A r \in Runs :
            (pc[r] # "done" /\ pc'[r] = "done" /\ exit_at'[r] \in NoTradeExits)
                => /\ status'[r] = Some(0)
                   /\ executions' = executions]_vars
    /\ [](\A r \in Runs :
            exit_at[r] \in NoTradeExits
                => /\ status[r] = Some(0)
                   /\ ~approved[r]
                   /\ tally[r].connects = 0 /\ tally[r].quotes = 0
                   /\ tally[r].orders = 0
                   /\ RowsBy(executions, r) = {})

\* C26's case: one run ended below the threshold and the other with no
\* qualifying candidate, while the table of executions is empty.
C26_Witness ==
    \E r, q \in Runs :
        /\ exit_at[r] = "below_threshold" /\ status[r] = Some(0)
        /\ exit_at[q] = "no_top1" /\ status[q] = Some(0)
        /\ executions = <<>>

\* --------------------------------------------------------------------- C27
\* C27: a run passes through the broker session and the audit step once and
\* never comes back to them; over its whole life it requests at most one
\* quote (one call of buy_fractional_by_amount), places at most one order
\* and appends at most one Execution row, whether the attempt succeeded or
\* failed.
C27_NoRetryWithinRun ==
    /\ [][\A r \in Runs :
            /\ pc[r] = "session" => pc'[r] \in {"session", "audit"}
            /\ pc[r] = "audit" => pc'[r] \in {"audit", "done"}
            /\ pc[r] = "done" => pc'[r] = "done"
            /\ pc'[r] = "session" => pc[r] \in {"connect", "session"}
            /\ tally'[r].quotes > tally[r].quotes => pc[r] = "session"
            /\ tally'[r].orders > tally[r].orders => pc[r] = "session"]_vars
    /\ [](\A r \in Runs :
            /\ tally[r].quotes <= 1
            /\ tally[r].orders <= 1
            /\ Cardinality(RowsBy(executions, r)) <= 1)

\* C27's case: the order of a run failed at placeOrder; the run ended with
\* that one order and that one row, its error set.
C27_Witness ==
    \E r \in Runs :
        /\ pc[r] = "done" /\ exit_at[r] = "audited"
        /\ tally[r].orders = 1 /\ tally[r].quotes = 1
        /\ \E k \in RowsBy(executions, r) :
              /\ executions[k].error # None
              /\ executions[k].price = None
              /\ ~executions[k].dry_run

\* --------------------------------------------------------------------- C28
\* What held in the run r before the step that places its order, the quote
\* apart: new rows were handed to the analyzer, the run passed the gate with a
\* candidate that has a ticker, no risk tag and a sentiment at or above the
\* threshold, the dry-run flag is off, the mode is paper and the amount is
\* positive.
GatesPassed(r) ==
    /\ handed[r] # {}
    /\ approved[r]
    /\ loc[r].top1 # None
    /\ loc[r].top1[1].ticker # None
    /\ loc[r].top1[1].risk_tags = {}
    /\ loc[r].top1[1].score >= MIN_SENTIMENT_TO_TRADE
    /\ ~dry_run
    /\ IsPaper(trading_mode)
    /\ INVEST_AMOUNT_USD > 0
    /\ ib[r]

\* The part of C28 that does not concern the quote.
OrderOnlyAfterGates ==
    [][\A r \in Runs : tally'[r].orders > tally[r].orders => GatesPassed(r)]_vars

\* C28: a step places an order only if all of that held and the quote the
\* order was computed from is a price above 0 giving a quantity above one
\* millionth.
C28_OrderOnlyIfAllChecksPassed ==
    [][\A r \in Runs :
          tally'[r].orders > tally[r].orders =>
              /\ GatesPassed(r)
              /\ loc'[r].result # None =>
                    /\ loc'[r].result[1].price[1] # NaNPrice
                    /\ loc'[r].result[1].price[1] > 0
                    /\ loc'[r].result[1].qty[1] # NaNPrice
                    /\ loc'[r].result[1].qty[1] > 1]_vars

\* --------------------------------------------------------------------- C29
\* The run q made an execution attempt that failed before any quote: it was
\* approved and has ended without a quote request (the connection was
\* refused or could not be made).
FailedAttempt(q) == pc[q] = "done" /\ approved[q] /\ tally[q].quotes = 0

\* The part of C29 that is about the row: a gate step taken while the table
\* holds a row of the current day with its error set approves nothing.
FailedRowCountsTowardCap ==
    [][\A r \in Runs :
          (/\ pc[r] = "gate" /\ pc'[r] # "gate"
           /\ \E k \in RowsOfDay(executions, clock) : executions[k].error # None)
              => ~approved'[r] /\ pc'[r] = "done"]_vars

\* C29: on the day of a failed attempt (day 0, the day every run of the
\* model starts on) no run that reaches the gate after the failure is
\* approved.
C29_NoAttemptAfterFailure ==
    [][\A r \in Runs :
          (/\ pc[r] = "gate" /\ pc'[r] # "gate" /\ clock = 0
           /\ \E q \in Runs \ {r} : FailedAttempt(q))
              => ~approved'[r]]_vars

\* --------------------------------------------------------------------- C30
\* The sessions of the calendar in the window of the call, the session the
\* entry date is aligned to, and the session n sessions after it.
WindowSessions ==
    {d \in (cmp.entry - DAYS_BEFORE)..(cmp.entry + DAYS_AFTER) :
        ~IsWeekend(d) /\ d \notin cmp.holidays /\ d <= cmp.cal_end}

AlignedEntry == CHOOSE d \in WindowSessions :
                   d >= cmp.entry /\ \A x \in WindowSessions : x >= cmp.entry => d <= x

SessionAfter(n) == CHOOSE d \in WindowSessions :
                      Cardinality({x \in WindowSessions : AlignedEntry < x /\ x <= d}) = n

ReachesT7 ==
    /\ \E d \in WindowSessions : d >= cmp.entry
    /\ Cardinality({x \in WindowSessions : x > AlignedEntry}) >= T7_SESSIONS

SymData == CloseData("NVDA", cmp.holidays, cmp.defect)
SpyData == CloseData("SPY", cmp.holidays, cmp.defect)

\* The closes of the three aligned sessions, of the ticker and of SPY.
AlignedCloses ==
    [entry_close |-> SymData[AlignedEntry],
     t3_close |-> SymData[SessionAfter(T3_SESSIONS)],
     t7_close |-> SymData[SessionAfter(T7_SESSIONS)],
     spy_entry_close |-> SpyData[AlignedEntry],
     spy_t3_close |-> SpyData[SessionAfter(T3_SESSIONS)],
     spy_t7_close |-> SpyData[SessionAfter(T7_SESSIONS)]]

RequiredSessions == {AlignedEntry, SessionAfter(T3_SESSIONS), SessionAfter(T7_SESSIONS)}

\* A series has no row for a required session.
RowAbsent == \E d \in RequiredSessions : d \notin DOMAIN SymData \/ d \notin DOMAIN SpyData

\* A series has no price for a required session: no row, or a row whose
\* close is nan.
CloseMissing ==
    \E d \in RequiredSessions :
        \/ d \notin DOMAIN SymData \/ d \notin DOMAIN SpyData
        \/ SymData[d].nan \/ SpyData[d].nan

\* The alignment holds when a close counts as missing only if its row is
\* absent: the call gives the closes of the aligned entry session and of the
\* third and seventh session after it, and gives nothing when the list is too
\* short or a row is absent.
AlignedUnlessRowAbsent ==
    cmp.called =>
        IF ReachesT7 /\ ~RowAbsent THEN cmp.ret = Some(AlignedCloses)
        ELSE cmp.ret = None

\* C30: compute_outcome_prices replaces an entry date that is not a session
\* by the next session, takes the T+3 and T+7 closes of the ticker and of the
\* benchmark from sessions[i+3] and sessions[i+7], and the execution is
\* skipped (no result) when the session list does not reach i+7 or a close is
\* missing for a required session in either series.
C30_AlignedToSessionsOrSkipped ==
    cmp.called =>
        IF ReachesT7 /\ ~CloseMissing THEN cmp.ret = Some(AlignedCloses)
        ELSE cmp.ret = None

\* --------------------------------------------------------------------- C31
\* The requests made so far by the call: those of the batches dealt with and
\* those of the batch at hand.
RECURSIVE SumAttempts(_)
SumAttempts(log) == IF log = <<>> THEN 0 ELSE Head(log).attempts + SumAttempts(Tail(log))
CallsMade == SumAttempts(an.log) + an.attempts
BatchCount == (Len(an.titles) + an.batch_size - 1) \div an.batch_size

\* C31: a batch is sent at most STOP_AFTER_ATTEMPT times; an attempt that
\* brings back an array of the batch's length makes the batch succeed, and
\* nothing else does; the call makes at most STOP_AFTER_ATTEMPT requests per
\* batch, ceil(n / batch_size) batches, and it always returns.
C31_RetryBoundedAndTerminates ==
    /\ [](/\ an.attempts < STOP_AFTER_ATTEMPT
          /\ \A j \in 1..Len(an.log) : an.log[j].attempts \in 1..STOP_AFTER_ATTEMPT
          /\ Len(an.log) <= BatchCount
          /\ CallsMade <= STOP_AFTER_ATTEMPT * BatchCount)
    /\ [][an.pc = "batch" =>
             LET batch == Slice(an.titles, an.i, an.batch_size)
                 right == an'.last.k = "array" /\ an'.last.len = Len(batch)
                 succeeded == /\ Len(an'.log) = Len(an.log) + 1
                              /\ an'.log[Len(an'.log)].ok
                              /\ an'.log[Len(an'.log)].attempts = an.attempts + 1
             IN right <=> succeeded]_vars
    /\ (an.pc = "batch" ~> an.pc = "done")

\* C31's case: a call over several batches returned having made every
\* request the policy allows, one batch succeeding at its last attempt and
\* another failing all of them.
C31_Witness ==
    /\ an.pc = "done"
    /\ BatchCount >= 2
    /\ CallsMade = STOP_AFTER_ATTEMPT * BatchCount
    /\ \E j, k \in 1..Len(an.log) : an.log[j].ok /\ ~an.log[k].ok

\* --------------------------------------------------------------------- C32
\* The row's entry_close is the close of the aligned entry session, whatever
\* the row records as its entry session.
EntryCloseIsOfAlignedSession ==
    cmp.row # None => cmp.row[1].entry_close = SymData[AlignedEntry]

\* C32: the entry session recorded in an Outcome row is a trading session
\* and is the session whose close is stored as entry_close; for an execution
\* dated on a day that is not a session it is the next session.
C32_RecordedEntryIsTradingSession ==
    cmp.row # None =>
        /\ cmp.row[1].entry_session \in WindowSessions
        /\ cmp.row[1].entry_session = AlignedEntry
        /\ cmp.row[1].entry_close = SymData[cmp.row[1].entry_session]

\* --------------------------------------------------------------------- C33
\* C33: a failed snapshot changes nothing in what the run does next.  After
\* a failed pre-open snapshot the run goes on to collection with its locals
\* and the stores as they were; inside the broker session the buy has the
\* same ticker, amount and possible outcomes whether the snapshot failed or
\* not, and a session whose snapshot failed still requests its quote.
C33_SnapshotFailureChangesNothing ==
    /\ [][\A r \in Runs :
            /\ (pc[r] = "snapshot_failed" /\ pc'[r] # pc[r]) =>
                  /\ pc'[r] = "collect" /\ loc'[r] = loc[r]
                  /\ UNCHANGED <<storeVars, histVars, ib, status, exit_at>>
            /\ (pc[r] = "session" /\ pc'[r] = "audit"
                    /\ loc'[r].snapshot_err # None) =>
                  /\ tally'[r].quotes = tally[r].quotes + 1
                  /\ loc'[r].fault # "snapshot"
                  /\ AuditRow(r, loc'[r]).ticker = loc[r].top1[1].ticker[1]
                  /\ AuditRow(r, loc'[r]).amount_usd = INVEST_AMOUNT_USD]_vars
    /\ [](\A r \in Runs : pc[r] = "session" =>
             LET outs == BuyOutcomes(loc[r].top1[1].ticker[1], INVEST_AMOUNT_USD,
                                     ib[r], dry_run)
             IN \A s \in SnapshotOutcomes : BuyAfterSnapshot(s, outs) = outs)

\* C33's case: the snapshot of one run's session failed and its live order
\* was placed all the same, while the other run's pre-open snapshot has just
\* failed.
C33_Witness ==
    \E r, q \in Runs :
        /\ pc[r] = "audit" /\ loc[r].snapshot_err # None
        /\ loc[r].result # None /\ tally[r].orders = 1
        /\ pc[q] = "snapshot_failed"

\* --------------------------------------------------------------------- C34
\* No two items of a list have the same key.
KeysOnce(items) ==
    \A i, j \in 1..Len(items) :
        i < j => DedupKey(items[i].raw_title, items[i].url)
                     # DedupKey(items[j].raw_title, items[j].url)

\* Each collector's own output holds each key at most once.
EachCollectorKeysOnce ==
    KeysOnce(RssFetch(col.entries)) /\ KeysOnce(RedditFetch(col.posts))

\* C34: the batch of raw items a run hands to persistence, the concatenation
\* of the collectors' outputs, holds each key (url, or title when url is
\* empty) at most once.
C34_BatchKeysOnce == col.called => KeysOnce(col.raw_items)

\* --------------------------------------------------------------------- C35
\* C35: a monitor run goes from its start straight to collection and from
\* there to its return; no step of it touches RawNews, Signals or Executions,
\* hands anything to the analyzer, opens a broker session, requests a quote
\* or places an order; and a run that returned from the monitor branch
\* exited 0 having stored, analyzed and traded nothing.
C35_MonitorIsAlertOnly ==
    /\ [][\A r \in Runs :
            (loc[r].phase = "monitor" /\ pc[r] \notin {"idle", "done"}
                 /\ pc'[r] # pc[r]) =>
               /\ pc[r] = "collect" /\ pc'[r] = "done"
               /\ exit_at'[r] \in {"monitor", "collect_error"}
               /\ status'[r] = Some(0)
               /\ UNCHANGED <<storeVars, histVars, ib>>]_vars
    /\ [](\A r \in Runs :
            /\ loc[r].phase = "monitor" => pc[r] = "collect"
            /\ exit_at[r] = "monitor" =>
                  /\ pc[r] = "done" /\ status[r] = Some(0)
                  /\ tally[r] = NoTally /\ handed[r] = {} /\ ~approved[r] /\ ~ib[r]
                  /\ RowsBy(raw_news, r) = {} /\ RowsBy(executions, r) = {})

\* C35's case: a monitor run returned while the other run, in the trading
\* pipeline, has an order placed and its audit row written.
C35_Witness ==
    \E r, q \in Runs :
        /\ exit_at[r] = "monitor" /\ pc[r] = "done"
        /\ tally[q].orders = 1 /\ RowsBy(executions, q) # {}

\* --------------------------------------------------------------------- C36
\* The error of a row with a fill is null when nothing but the trade could
\* have failed: the snapshot was recorded and the broker session was closed
\* without an exception.
FillErrorOnlyFromSnapshotOrDisconnect ==
    [][\A r \in Runs :
          (/\ pc[r] = "audit" /\ exit_at'[r] = "audited"
           /\ loc[r].result # None
           /\ loc[r].snapshot_err = None /\ loc[r].fault # "disconnect")
              => executions'[Len(executions')].error = None]_vars

\* C36: an Execution row that carries a fill result (price and qty
\* populated) has a null error.
C36_ErrorNullOnFill ==
    \A k \in 1..Len(executions) :
        (executions[k].price # None /\ executions[k].qty # None)
            => executions[k].error = None

\* --------------------------------------------------------------------- C37
\* A row of a run that called placeOrder lacks price and qty only when
\* buy_fractional_by_amount raised at placeOrder or after it.
OrderWithoutPriceOnlyOnRaise ==
    [][\A r \in Runs :
          (pc[r] = "audit" /\ exit_at'[r] = "audited" /\ tally[r].orders > 0) =>
              LET row == executions'[Len(executions')]
              IN (row.price = None \/ row.qty = None)
                     <=> loc[r].fault \in {"order", "after_order"}]_vars

\* C37: an Execution row with price and qty null comes from a run that
\* submitted no order; a run that submitted one wrote price and qty, also
\* when an exception followed the submission.
C37_NullPriceMeansNoOrder ==
    \A r \in Runs : \A k \in RowsBy(executions, r) :
        (executions[k].price = None /\ executions[k].qty = None)
            => tally[r].orders = 0

\* --------------------------------------------------------------------- C38
\* A run that ended anywhere but in a failed audit write has a row for its
\* order.
OrderAuditedUnlessWriteFailed ==
    \A r \in Runs :
        (pc[r] = "done" /\ exit_at[r] # "audit_error")
            => tally[r].orders <= Cardinality(RowsBy(executions, r))

\* C38: at the end of every run the orders the run submitted are at most the
\* Execution rows it appended, also when the audit write fails.
C38_NoOrderWithoutAuditRow ==
    \A r \in Runs :
        pc[r] = "done" => tally[r].orders <= Cardinality(RowsBy(executions, r))

\* --------------------------------------------------------------------- C39
\* The executions older than the buffer window that have no outcome: those
\* whose data are available, and those that fail on every run.
Unresolved ==
    {x \in ExecIds(executions) :
        /\ executions[x].created_at <= clock - EVAL_AGE_DAYS
        /\ ~HasOutcome(outcomes, x)}
Waiting == {x \in Unresolved : executions[x].ticker # NoDataTicker}
KeepFailing == {x \in Unresolved : executions[x].ticker = NoDataTicker}

\* The run e has just selected its batch.
Selected(e) == ev[e].pc # "loop" /\ ev'[e].pc = "loop"
InBatch(e) == {ev'[e].batch[k] : k \in 1..Len(ev'[e].batch)}

\* With fewer than EVAL_LIMIT executions that keep failing, a run whose
\* batch leaves an evaluable execution waiting has another evaluable one in
\* its batch, and with at most EVAL_LIMIT unresolved executions every
\* evaluable one is in the batch.
WaitingSelectedBelowLimit ==
    [][\A e \in Evals : Selected(e) =>
          /\ (Cardinality(KeepFailing) < EVAL_LIMIT /\ Waiting # {})
                 => InBatch(e) \cap Waiting # {}
          /\ Cardinality(Unresolved) <= EVAL_LIMIT => Waiting \subseteq InBatch(e)]_vars

\* An execution behind EVAL_LIMIT older executions that keep failing never
\* gets an outcome, however many runs are made.
StarvedNeverEvaluated ==
    \A x \in ExecIds(executions) :
        Cardinality({y \in 1..(x - 1) : executions[y].ticker = NoDataTicker}) >= EVAL_LIMIT
            => ~HasOutcome(outcomes, x)

\* C39: executions that keep failing never keep a newer evaluable execution
\* from being evaluated: a run never selects a batch made only of executions
\* that fail on every run while an evaluable execution is waiting (such a
\* run changes nothing, so every later run selects the same batch and the
\* waiting execution never gets its Outcome).
C39_FailingNeverStarveNewer ==
    [][\A e \in Evals : (Selected(e) /\ Waiting # {})
                            => InBatch(e) \cap Waiting # {}]_vars

====
